---- MODULE Spec2Model ----
(***************************************************************************)
(* State-machine model of the signalix-ai prediction session pipeline:     *)
(* the credit ledger (MongoStorage), the analyze-pair cycle                *)
(* (handlePairSelection) and the HTTP routes that touch the ledger.        *)
(*                                                                         *)
(* Execution is single-threaded and event-driven: code between two awaits  *)
(* runs without interruption.  Each action below is one suspension point   *)
(* resolving (a ledger call, a timer, the analysis) together with the      *)
(* continuation that runs until the next await.                            *)
(***************************************************************************)
EXTENDS Integers, Sequences, FiniteSets, TLC

\* ---------------------------------------------------------------- bounds
MaxCycles == 2          \* analyze-pair cycles started in one behaviour
MaxInitCredits == 2     \* largest balance a pre-existing record starts with

\* ------------------------------------------------------ program constants
DefaultCredits == 10    \* balance written by lazy initialisation

Users == {"dev_user"}
Conns == {"ws1"}
Pairs == {"BTC/USDT"}
Directions == {"UP", "DOWN", "NEUTRAL"}

\* The duration enum of the response schema.
Durations ==
    {"10-15 seconds", "15-20 seconds", "20-30 seconds", "30-45 seconds",
     "45-60 seconds", "1-2 minutes"}
CycleIds == 1..MaxCycles

VARIABLES
    ledger,     \* the users collection: userId -> document (or absent)
    open,       \* ws.readyState = OPEN, per connection
    history,    \* predictionHistory of each connection
    cyc,        \* the handlePairSelection invocations
    ledger0,    \* history variable: the ledger of the initial state
    purchased,  \* history variable: users grantUnlimitedAccess has run for
    snapshot,   \* the last fetchMarketData call: what the provider answered
                \* and what the call returned
    engine,     \* the last getGeminiPrediction call: the model calls it
                \* made, what they answered and what it returned
    clock       \* wall time in ms, when the specification tracks it

vars == <<ledger, open, history, cyc, ledger0, purchased, snapshot, engine,
          clock>>

\* ------------------------------------------------------------- documents
Absent == [exists |-> FALSE, credits |-> 0, hasUnlimitedAccess |-> FALSE]

UserDoc(c, u) == [exists |-> TRUE, credits |-> c, hasUnlimitedAccess |-> u]

\* ------------------------------------------------------- server messages
ServerMessage(t, content, dir, credits) ==
    [type |-> t, content |-> content, direction |-> dir, credits |-> credits,
     delivered |-> TRUE]

insufficientMsg == ServerMessage("insufficient_credits", "out_of_credits", "none", 0)

thinkingMsg == ServerMessage("bot_message", "analyzing", "none", -1)

typingMsg == ServerMessage("typing", "", "none", -1)

predictionMsg(d) == ServerMessage("prediction", "analysis", d, -1)

creditsUpdateMsg(n) == ServerMessage("credits_update", "", "none", n)

followUpMsg(d) ==
    ServerMessage("bot_message",
                  IF d = "NEUTRAL" THEN "no_credits_consumed" ELSE "want_another",
                  "none", -1)

errorMsg == ServerMessage("bot_message", "unavailable", "none", -1)

\* ------------------------------------------------------------ the ledger
\* MongoStorage.getUserCredits: the document, with the flag defaulted.
getUserCredits(l, u) == l[u]

\* MongoStorage.setUserCredits: upsert that $sets credits.
setUserCredits(l, u, n) ==
    [l EXCEPT ![u] = IF l[u].exists
                     THEN [l[u] EXCEPT !.credits = n]
                     ELSE UserDoc(n, FALSE)]

\* MongoStorage.grantUnlimitedAccess: upsert that $sets the flag; an inserted
\* document takes the schema default for credits.
grantUnlimitedAccess(l, u) ==
    [l EXCEPT ![u] = IF l[u].exists
                     THEN [l[u] EXCEPT !.hasUnlimitedAccess = TRUE]
                     ELSE UserDoc(DefaultCredits, TRUE)]

\* MongoStorage.revokeUnlimitedAccess.
revokeUnlimitedAccess(l, u) ==
    [l EXCEPT ![u] = IF l[u].exists
                     THEN [l[u] EXCEPT !.hasUnlimitedAccess = FALSE]
                     ELSE UserDoc(DefaultCredits, FALSE)]

\* Variants of decrementDecision with a slip in the balance test.
decrementDecision_OffByOne(doc) ==
    IF ~doc.exists THEN "false"
    ELSE IF doc.hasUnlimitedAccess THEN "true"
    ELSE IF doc.credits < 0 THEN "false"
    ELSE "save"

decrementDecision_NoBalanceCheck(doc) ==
    IF ~doc.exists THEN "false"
    ELSE IF doc.hasUnlimitedAccess THEN "true"
    ELSE "save"

decrementDecision_BalanceFirst(doc) ==
    IF ~doc.exists THEN "false"
    ELSE IF doc.credits <= 0 THEN "false"
    ELSE IF doc.hasUnlimitedAccess THEN "true"
    ELSE "save"

\* decrementUserCredits, first half: what findOne's document decides.
\* "false" / "true" are early returns, "save" goes on to user.save().
decrementDecision(doc) ==
    IF ~doc.exists THEN "false"
    ELSE IF doc.hasUnlimitedAccess THEN "true"
    ELSE IF doc.credits <= 0 THEN "false"
    ELSE "save"

\* Variant of saveDecrement that never reaches the database.
saveDecrement_NoWrite(l, u, doc) == l

\* decrementUserCredits, second half: user.save() writes the modified path,
\* credits, computed from the document findOne returned.
saveDecrement(l, u, doc) == [l EXCEPT ![u].credits = doc.credits - 1]

\* ------------------------------------------------------------ market data
\* The keys of the mapping in pairToSymbols.
SupportedPairs ==
    {"BTC/USDT", "ETH/USDT", "BNB/USDT", "XRP/USDT", "SOL/USDT", "ADA/USDT",
     "DOGE/USDT", "EUR/USD", "GBP/USD", "AUD/USD"}

\* Variant of pairToSymbols that resolves every pair.
pairToSymbols_AcceptAll(pair) == "symbols"

\* pairToSymbols: the provider's symbols of a supported pair; it throws for
\* every other pair.
pairToSymbols(pair) == IF pair \in SupportedPairs THEN "symbols" ELSE "throw"

CandleLimit == 100          \* candles requested, and candles below which
                            \* a snapshot is back-filled

FiveMinutesMs == 300000     \* 5 * 60 * 1000

NoRequest == [pair |-> "", price |-> "", stats |-> "", histo |-> ""]

NoSnapshot ==
    [status |-> "none", provided |-> 0, candles |-> <<>>, request |-> NoRequest]

\* ------------------------------------------------------------------ time
\* Specifications that do not track time keep the clock here: timers fire
\* whenever they are scheduled and every message is stamped 0.
Untimed == [timed |-> FALSE, now |-> 0]

TickMs == 200     \* the clock advances in steps of this many ms

MaxTicks == 20    \* and stops after this many steps

ThinkingDelayMs == 600      \* between the thinking message and typing

MinAnalysisTimeMs == 2000   \* minAnalysisTime

FollowUpDelayMs == 1000     \* before the follow-up message

\* setTimeout(..., ms) set now: the time from which the callback can run.
After(ms) == IF clock.timed THEN clock.now + ms ELSE 0

\* The clock has reached t (always so when time is not tracked).
Reached(t) == ~clock.timed \/ clock.now >= t

\* How long generatePrediction can have taken.
AnalysisTimes ==
    IF clock.timed THEN {k * TickMs : k \in 0..MaxTicks} ELSE {0}

\* Variant of floorWait without the minimum analysis time.
floorWait_None(analysisTime) == 0

\* Lines 416-420: the wait that follows an analysis shorter than
\* minAnalysisTime.
floorWait(analysisTime) ==
    IF analysisTime < MinAnalysisTimeMs THEN MinAnalysisTimeMs - analysisTime
    ELSE 0

\* ------------------------------------------------------ the decision engine
NoEngineRun ==
    [ran |-> FALSE, calls |-> <<>>, answers |-> <<>>,
     result |-> [direction |-> "none", confidence |-> 0, duration |-> ""]]

\* What one callGeminiModel call can produce: a decision whose confidence is
\* already clamped to 90..98, or CallFailed when the call throws.
Decisions ==
    {[direction |-> "UP", confidence |-> 90, duration |-> "10-15 seconds"],
     [direction |-> "DOWN", confidence |-> 98, duration |-> "1-2 minutes"],
     [direction |-> "NEUTRAL", confidence |-> 94, duration |-> "30-45 seconds"]}

CallFailed == [direction |-> "fail", confidence |-> 0, duration |-> ""]

NoDecision == [direction |-> "null", confidence |-> 0, duration |-> ""]

Thrown == [direction |-> "throw", confidence |-> 0, duration |-> ""]

\* Variant of getGeminiPrediction that makes up a NEUTRAL decision when both
\* calls have failed.
getGeminiPrediction_DefaultNeutral(primary, fallback) ==
    IF primary # CallFailed THEN primary
    ELSE IF fallback # CallFailed THEN fallback
    ELSE [direction |-> "NEUTRAL", confidence |-> 90,
          duration |-> "10-15 seconds"]

\* getGeminiPrediction: the primary model, on a throw the fallback model, and
\* null when that throws too.
getGeminiPrediction(primary, fallback) ==
    IF primary # CallFailed THEN primary
    ELSE IF fallback # CallFailed THEN fallback
    ELSE NoDecision

\* generatePrediction: rejects when the market data cannot be fetched, and
\* when the decision engine returns no decision (ModelUnavailable).
generatePrediction(pair, market, primary, fallback) ==
    IF pairToSymbols(pair) = "throw" \/ market = "throw" THEN Thrown
    ELSE LET decision == getGeminiPrediction(primary, fallback) IN
         IF decision = NoDecision THEN Thrown ELSE decision

\* --------------------------------------- one call of the decision engine
\* Numbers are kept in tenths, so that 93.5 is 935. NaN is what JavaScript's
\* ToNumber yields for undefined and for text that is not a number; every
\* Math function passes it on.
NaN == -999999

\* The value found in the confidence field of the parsed result.
RawConfidence(kind, tenths) == [kind |-> kind, tenths |-> tenths]

ToNumber(raw) ==
    CASE raw.kind = "number" -> raw.tenths
      [] raw.kind = "numericString" -> raw.tenths
      [] raw.kind = "null" -> 0
      [] raw.kind = "text" -> NaN
      [] raw.kind = "missing" -> NaN

MathMin(a, b) == IF a = NaN \/ b = NaN THEN NaN ELSE IF a < b THEN a ELSE b

MathMax(a, b) == IF a = NaN \/ b = NaN THEN NaN ELSE IF a > b THEN a ELSE b

\* Math.round of a number in tenths: the nearest integer, halves upwards.
MathRound(t) == IF t = NaN THEN NaN ELSE (t + 5) \div 10

\* What the provider answers to one generateContent request.
ModelAnswer(kind, direction, confidence, duration) ==
    [kind |-> kind, direction |-> direction, confidence |-> confidence,
     duration |-> duration]

\* callGeminiModel: throws on a rejected request, on an answer without
\* candidates or without text and on text JSON.parse rejects or parses to
\* null; otherwise it returns the parsed decision with its confidence
\* clamped and rounded.
callGeminiModel(answer) ==
    IF answer.kind # "json" THEN CallFailed
    ELSE [direction |-> answer.direction,
          confidence |->
              MathRound(MathMax(900, MathMin(980, ToNumber(answer.confidence)))),
          duration |-> answer.duration]

PrimaryModel == "gemini-2.5-pro"

FallbackModel == "gemini-flash-latest"

ModelCall(model, prompt, schema) ==
    [model |-> model, prompt |-> prompt, schema |-> schema]

\* Variant of modelCalls that asks the fallback model in every case.
modelCalls_AlwaysBoth(primary, prompt, schema) ==
    <<ModelCall(PrimaryModel, prompt, schema),
      ModelCall(FallbackModel, prompt, schema)>>

\* The generateContent requests one getGeminiPrediction call makes, in
\* order: the primary model, and the fallback model from the catch block.
modelCalls(primary, prompt, schema) ==
    IF primary # CallFailed
    THEN <<ModelCall(PrimaryModel, prompt, schema)>>
    ELSE <<ModelCall(PrimaryModel, prompt, schema),
           ModelCall(FallbackModel, prompt, schema)>>

\* ------------------------------------------------------ inbound frames
\* A frame is text: JSON.parse either rejects it or yields a ClientMessage
\* with these fields ("" and <<>> stand for a missing field); content is the
\* sequence of its characters.
ClientMessage(t, pair, content, userId) ==
    [wellFormed |-> TRUE, type |-> t, pair |-> pair, content |-> content,
     userId |-> userId]

Malformed ==
    [wellFormed |-> FALSE, type |-> "", pair |-> "", content |-> <<>>,
     userId |-> ""]

NoFrame ==
    [wellFormed |-> FALSE, type |-> "none", pair |-> "", content |-> <<>>,
     userId |-> ""]

ParseError == [type |-> "SyntaxError", pair |-> "", content |-> <<>>, userId |-> ""]

\* JSON.parse(data.toString()): the message, or the error it throws.
JSONparse(data) ==
    IF data.wellFormed
    THEN [type |-> data.type, pair |-> data.pair, content |-> data.content,
          userId |-> data.userId]
    ELSE ParseError

\* What an HTTP handler answers: res.status(...).json(...).
Response(status, body) == [status |-> status, body |-> body]

NoResponse == Response(0, Absent)

\* The body and the token of a POST /api/credits/purchase request.
PurchaseRequest(success, authorised) ==
    [route |-> "purchase", success |-> success, authorised |-> authorised]

NoPurchase == [route |-> "none", success |-> FALSE, authorised |-> FALSE]

\* The Whop configuration a GET /api/credits request runs under: isWhopEnabled
\* with whopSdk, and WHOP_PLAN_ID with WHOP_COMPANY_ID.
WhopConfig(enabled, ids) == [enabled |-> enabled, ids |-> ids]

WhopConfigs == {WhopConfig(e, g) : e \in BOOLEAN, g \in BOOLEAN}

\* What a request has seen of Whop: the configuration, the answer of the
\* membership check it made, and whether it went on to revoke.
NoWhop ==
    [enabled |-> FALSE, ids |-> FALSE, membership |-> "unchecked",
     revoked |-> FALSE]

\* ------------------------------------------------------------ the cycles
\* A handler invocation; inbound is the frame that started it, when the
\* dispatcher is modelled.
IdleCycle ==
    [pc |-> "idle", ws |-> "ws1", userId |-> "dev_user", pair |-> "BTC/USDT",
     inbound |-> NoFrame,
     userCredits |-> Absent, direction |-> "none", doc |-> Absent,
     confidence |-> 0, sent |-> <<>>, initialised |-> FALSE, pushed |-> FALSE,
     decrement |-> "none", threw |-> FALSE, bothFailed |-> FALSE,
     response |-> NoResponse, times |-> <<>>, due |-> 0, startTime |-> 0,
     request |-> NoPurchase, whop |-> NoWhop]

\* ws.send: `sent` logs every call the cycle makes; the frame reaches the
\* client only while the connection is open.
Send(c, m) ==
    [c EXCEPT !.sent = Append(@, [m EXCEPT !.delivered = open[c.ws]]),
              !.times = Append(@, clock.now)]

Finish(c) == [c EXCEPT !.pc = "done"]

Init ==
    /\ ledger \in [Users -> {Absent} \cup
                     {UserDoc(n, FALSE) : n \in 0..MaxInitCredits}]
    /\ open = [c \in Conns |-> TRUE]
    /\ history = [c \in Conns |-> <<>>]
    /\ cyc = [i \in CycleIds |-> IdleCycle]
    /\ ledger0 = ledger
    /\ purchased = {}
    /\ snapshot = NoSnapshot
    /\ engine = NoEngineRun
    /\ clock = Untimed


\* ------------------------------------------- handlePairSelection, by step
HistoryEntry(c) ==
    [pair |-> c.pair, direction |-> c.direction, confidence |-> c.confidence]

\* Variant of Catch that swallows the failure without telling the client.
Catch_Silent(c) == Finish([c EXCEPT !.threw = TRUE])

\* The catch block: the generic failure message, on an open connection only.
Catch(c) ==
    IF open[c.ws] THEN Finish(Send([c EXCEPT !.threw = TRUE], errorMsg))
    ELSE Finish([c EXCEPT !.threw = TRUE])

\* Variant of AfterCredits whose pre-flight test lets a zero balance through.
AfterCredits_OffByOne(c, uc) ==
    IF ~uc.exists THEN Finish(c)
    ELSE IF ~uc.hasUnlimitedAccess /\ uc.credits < 0
         THEN Finish(Send([c EXCEPT !.userCredits = uc], insufficientMsg))
    ELSE [Send([c EXCEPT !.userCredits = uc], thinkingMsg)
            EXCEPT !.pc = "delay600", !.due = After(ThinkingDelayMs)]

\* Variant of AfterCredits whose pre-flight test looks at the balance only.
AfterCredits_BalanceOnly(c, uc) ==
    IF ~uc.exists THEN Finish(c)
    ELSE IF uc.credits <= 0
         THEN Finish(Send([c EXCEPT !.userCredits = uc], insufficientMsg))
    ELSE [Send([c EXCEPT !.userCredits = uc], thinkingMsg)
            EXCEPT !.pc = "delay600", !.due = After(ThinkingDelayMs)]

\* Lines 374-397: the pre-flight check on the record just read, then the
\* thinking message and the 600 ms timer.
AfterCredits(c, uc) ==
    IF ~uc.exists THEN Finish(c)
    ELSE IF ~uc.hasUnlimitedAccess /\ uc.credits <= 0
         THEN Finish(Send([c EXCEPT !.userCredits = uc], insufficientMsg))
    ELSE [Send([c EXCEPT !.userCredits = uc], thinkingMsg)
            EXCEPT !.pc = "delay600", !.due = After(ThinkingDelayMs)]

\* Variant of Deliver that goes to the follow-up without the refreshed balance.
Deliver_SkipRefresh(i, c) ==
    /\ history' = [history EXCEPT ![c.ws] = Append(@, HistoryEntry(c))]
    /\ cyc' = [cyc EXCEPT ![i] =
                 [Send(c, predictionMsg(c.direction))
                    EXCEPT !.pc = "followUp", !.pushed = TRUE]]

\* Variant of Deliver that keeps one history for the whole server.
Deliver_SharedHistory(i, c) ==
    /\ history' = [w \in DOMAIN history |-> Append(history[w], HistoryEntry(c))]
    /\ cyc' = [cyc EXCEPT ![i] =
                 [Send(c, predictionMsg(c.direction))
                    EXCEPT !.pc = "refresh", !.pushed = TRUE]]

\* Lines 442-459: history.push, the prediction message, then the refreshed
\* balance is requested.
Deliver(i, c) ==
    /\ history' = [history EXCEPT ![c.ws] = Append(@, HistoryEntry(c))]
    /\ cyc' = [cyc EXCEPT ![i] =
                 [Send(c, predictionMsg(c.direction))
                    EXCEPT !.pc = "refresh", !.pushed = TRUE]]

\* Variant of AfterFloor that deducts for NEUTRAL decisions too.
AfterFloor_AlwaysDeduct(i, c) ==
    IF ~open[c.ws]
    THEN cyc' = [cyc EXCEPT ![i] = Finish(c)] /\ UNCHANGED history
    ELSE IF ~c.userCredits.hasUnlimitedAccess
         THEN /\ cyc' = [cyc EXCEPT ![i] = [c EXCEPT !.pc = "decFind",
                                                     !.decrement = "pending"]]
              /\ UNCHANGED history
    ELSE Deliver(i, c)

\* Lines 422-440: liveness check, then the deduction step or the delivery.
AfterFloor(i, c) ==
    IF ~open[c.ws]
    THEN cyc' = [cyc EXCEPT ![i] = Finish(c)] /\ UNCHANGED history
    ELSE IF c.direction # "NEUTRAL" /\ ~c.userCredits.hasUnlimitedAccess
         THEN /\ cyc' = [cyc EXCEPT ![i] = [c EXCEPT !.pc = "decFind",
                                                     !.decrement = "pending"]]
              /\ UNCHANGED history
    ELSE Deliver(i, c)

\* ws.on('message') with a select_pair: handlePairSelection is entered on an
\* open connection and awaits storage.getUserCredits.
StartCycle(i, w, u, p) ==
    /\ cyc[i].pc = "idle"
    /\ \A j \in CycleIds : j < i => cyc[j].pc # "idle"
    /\ open[w]
    /\ cyc' = [cyc EXCEPT ![i] = [IdleCycle EXCEPT !.pc = "getCredits", !.ws = w,
                                                   !.userId = u, !.pair = p]]
    /\ UNCHANGED <<ledger, open, history, ledger0, engine, clock, snapshot, purchased>>

GetCredits(i) ==
    /\ cyc[i].pc = "getCredits"
    /\ LET uc == getUserCredits(ledger, cyc[i].userId) IN
         cyc' = [cyc EXCEPT ![i] =
                   IF ~uc.exists THEN [cyc[i] EXCEPT !.pc = "setCredits"]
                   ELSE AfterCredits(cyc[i], uc)]
    /\ UNCHANGED <<ledger, open, history, ledger0, engine, clock, snapshot, purchased>>

SetCredits(i) ==
    /\ cyc[i].pc = "setCredits"
    /\ ledger' = setUserCredits(ledger, cyc[i].userId, DefaultCredits)
    /\ cyc' = [cyc EXCEPT ![i] = [cyc[i] EXCEPT !.pc = "reGetCredits",
                                               !.initialised = TRUE]]
    /\ UNCHANGED <<open, history, ledger0, engine, clock, snapshot, purchased>>

ReGetCredits(i) ==
    /\ cyc[i].pc = "reGetCredits"
    /\ cyc' = [cyc EXCEPT ![i] =
                 AfterCredits(cyc[i], getUserCredits(ledger, cyc[i].userId))]
    /\ UNCHANGED <<ledger, open, history, ledger0, engine, clock, snapshot, purchased>>

Delay600(i) ==
    /\ cyc[i].pc = "delay600"
    /\ Reached(cyc[i].due)
    /\ cyc' = [cyc EXCEPT ![i] =
                 IF ~open[cyc[i].ws] THEN Finish(cyc[i])
                 ELSE [Send(cyc[i], typingMsg)
                         EXCEPT !.pc = "analysis", !.startTime = clock.now]]
    /\ UNCHANGED <<ledger, open, history, ledger0, engine, clock, snapshot, purchased>>

\* Lines 413-422: generatePrediction resolves with a decision or rejects
\* (market data not fetched, or no decision from either model); the wait for
\* the 2000 ms floor, when there is one, ends in the same step.  bothFailed
\* records that both model calls of this cycle threw.
Analysis(i) ==
    /\ cyc[i].pc = "analysis"
    /\ \E market \in {"ok", "throw"},
          primary \in Decisions \cup {CallFailed},
          fallback \in Decisions \cup {CallFailed},
          analysisTime \in AnalysisTimes :
         LET prediction == generatePrediction(cyc[i].pair, market, primary,
                                              fallback)
             c == [cyc[i] EXCEPT !.bothFailed =
                     (/\ pairToSymbols(cyc[i].pair) # "throw"
                      /\ market = "ok"
                      /\ primary = CallFailed
                      /\ fallback = CallFailed)] IN
         IF prediction = Thrown
         THEN /\ Reached(c.startTime + analysisTime)
              /\ cyc' = [cyc EXCEPT ![i] = Catch(c)]
              /\ UNCHANGED history
         ELSE /\ Reached(c.startTime + analysisTime + floorWait(analysisTime))
              /\ AfterFloor(i, [c EXCEPT !.direction = prediction.direction,
                                         !.confidence = prediction.confidence])
    /\ UNCHANGED <<ledger, open, ledger0, engine, clock, snapshot, purchased>>

\* Variant of DecFind whose failure branch lacks the return.
DecFind_NoReturn(i) ==
    /\ cyc[i].pc = "decFind"
    /\ LET doc == ledger[cyc[i].userId]
           d   == decrementDecision(doc) IN
         CASE d = "false" ->
                Deliver(i, Send([cyc[i] EXCEPT !.decrement = "false", !.doc = doc],
                                insufficientMsg))
           [] d = "true" ->
                Deliver(i, [cyc[i] EXCEPT !.decrement = "true", !.doc = doc])
           [] d = "save" ->
                /\ cyc' = [cyc EXCEPT ![i] = [cyc[i] EXCEPT !.pc = "decSave",
                                                           !.doc = doc]]
                /\ UNCHANGED history
    /\ UNCHANGED <<ledger, open, ledger0, engine, clock, snapshot, purchased>>

\* decrementUserCredits up to its first await resolving: findOne, the early
\* returns, and for a positive balance the in-memory subtraction.
DecFind(i) ==
    /\ cyc[i].pc = "decFind"
    /\ LET doc == ledger[cyc[i].userId]
           d   == decrementDecision(doc) IN
         CASE d = "false" ->
                /\ cyc' = [cyc EXCEPT ![i] =
                     Finish(Send([cyc[i] EXCEPT !.decrement = "false", !.doc = doc],
                                 insufficientMsg))]
                /\ UNCHANGED history
           [] d = "true" ->
                Deliver(i, [cyc[i] EXCEPT !.decrement = "true", !.doc = doc])
           [] d = "save" ->
                /\ cyc' = [cyc EXCEPT ![i] = [cyc[i] EXCEPT !.pc = "decSave",
                                                           !.doc = doc]]
                /\ UNCHANGED history
    /\ UNCHANGED <<ledger, open, ledger0, engine, clock, snapshot, purchased>>

\* user.save() resolving: the write, return true, and the delivery.
DecSave(i) ==
    /\ cyc[i].pc = "decSave"
    /\ ledger' = saveDecrement(ledger, cyc[i].userId, cyc[i].doc)
    /\ Deliver(i, [cyc[i] EXCEPT !.decrement = "saved"])
    /\ UNCHANGED <<open, ledger0, engine, clock, snapshot, purchased>>

\* Lines 459-488: the refreshed balance, credits_update, the 1000 ms timer.
Refresh(i) ==
    /\ cyc[i].pc = "refresh"
    /\ LET updatedCredits == getUserCredits(ledger, cyc[i].userId) IN
         cyc' = [cyc EXCEPT ![i] =
                   [(IF updatedCredits.exists
                     THEN Send(cyc[i], creditsUpdateMsg(updatedCredits.credits))
                     ELSE cyc[i])
                      EXCEPT !.pc = "followUp", !.due = After(FollowUpDelayMs)]]
    /\ UNCHANGED <<ledger, open, history, ledger0, engine, clock, snapshot, purchased>>

\* Variant of FollowUp whose timer callback sends nothing.
FollowUp_Silent(i) ==
    /\ cyc[i].pc = "followUp"
    /\ Reached(cyc[i].due)
    /\ cyc' = [cyc EXCEPT ![i] = Finish(cyc[i])]
    /\ UNCHANGED <<ledger, open, history, ledger0, engine, clock, snapshot, purchased>>

\* Lines 470-488: the 1000 ms timer fires; the follow-up is sent on an open
\* connection.
FollowUp(i) ==
    /\ cyc[i].pc = "followUp"
    /\ Reached(cyc[i].due)
    /\ cyc' = [cyc EXCEPT ![i] =
                 IF ~open[cyc[i].ws] THEN Finish(cyc[i])
                 ELSE Finish(Send(cyc[i], followUpMsg(cyc[i].direction)))]
    /\ UNCHANGED <<ledger, open, history, ledger0, engine, clock, snapshot, purchased>>

\* Variant of LedgerFails in which the rejection of the refreshed-balance
\* read is not handled: the cycle ends there without a message.
LedgerFails_Unhandled(i) ==
    /\ cyc[i].pc \in {"getCredits", "setCredits", "reGetCredits",
                      "decFind", "decSave", "refresh"}
    /\ cyc' = [cyc EXCEPT ![i] =
                 IF cyc[i].pc = "refresh"
                 THEN Finish([cyc[i] EXCEPT !.threw = TRUE])
                 ELSE Catch(cyc[i])]
    /\ UNCHANGED <<ledger, open, history, ledger0, engine, clock, snapshot, purchased>>

\* A ledger call of the cycle rejects: control passes to the catch block.
LedgerFails(i) ==
    /\ cyc[i].pc \in {"getCredits", "setCredits", "reGetCredits",
                      "decFind", "decSave", "refresh"}
    /\ cyc' = [cyc EXCEPT ![i] = Catch(cyc[i])]
    /\ UNCHANGED <<ledger, open, history, ledger0, engine, clock, snapshot, purchased>>

\* ws 'close'.
CloseConn(w) ==
    /\ open[w]
    /\ open' = [open EXCEPT ![w] = FALSE]
    /\ UNCHANGED <<ledger, history, cyc, ledger0, engine, clock, snapshot, purchased>>

\* ----------------------------------------------------------- HTTP routes
\* POST /api/credits/purchase with success = true.
Purchase(u) ==
    /\ ledger' = grantUnlimitedAccess(ledger, u)
    /\ purchased' = purchased \cup {u}
    /\ UNCHANGED <<open, history, cyc, ledger0, engine, clock, snapshot>>

\* GET /api/credits, lines 186-208: the membership check of a user read as
\* unlimited reports no active membership and revokeUnlimitedAccess runs.
RevokeMembership(u) ==
    /\ ledger[u].exists /\ ledger[u].hasUnlimitedAccess
    /\ ledger' = revokeUnlimitedAccess(ledger, u)
    /\ UNCHANGED <<open, history, cyc, ledger0, engine, clock, snapshot, purchased>>

Next ==
    \/ \E i \in CycleIds, w \in Conns, u \in Users, p \in Pairs : StartCycle(i, w, u, p)
    \/ \E i \in CycleIds : GetCredits(i)
    \/ \E i \in CycleIds : SetCredits(i)
    \/ \E i \in CycleIds : ReGetCredits(i)
    \/ \E i \in CycleIds : Delay600(i)
    \/ \E i \in CycleIds : Analysis(i)
    \/ \E i \in CycleIds : DecFind(i)
    \/ \E i \in CycleIds : DecSave(i)
    \/ \E i \in CycleIds : Refresh(i)
    \/ \E i \in CycleIds : FollowUp(i)
    \/ \E i \in CycleIds : LedgerFails(i)
    \/ \E w \in Conns : CloseConn(w)
    \/ \E u \in Users : Purchase(u)
    \/ \E u \in Users : RevokeMembership(u)

Spec == Init /\ [][Next]_vars

\* ------------------------------------------------ cycles that are answered
\* The connections stay open, and every awaited call and every timer of a
\* cycle eventually resolves, rejects or fires: the next step of a started
\* cycle is taken sooner or later.
CycleStep(i) ==
    \/ GetCredits(i) \/ SetCredits(i) \/ ReGetCredits(i) \/ Delay600(i)
    \/ Analysis(i) \/ DecFind(i) \/ DecSave(i) \/ Refresh(i) \/ FollowUp(i)
    \/ LedgerFails(i)

LiveNext ==
    \/ \E i \in CycleIds, w \in Conns, u \in Users, p \in Pairs : StartCycle(i, w, u, p)
    \/ \E i \in CycleIds : GetCredits(i)
    \/ \E i \in CycleIds : SetCredits(i)
    \/ \E i \in CycleIds : ReGetCredits(i)
    \/ \E i \in CycleIds : Delay600(i)
    \/ \E i \in CycleIds : Analysis(i)
    \/ \E i \in CycleIds : DecFind(i)
    \/ \E i \in CycleIds : DecSave(i)
    \/ \E i \in CycleIds : Refresh(i)
    \/ \E i \in CycleIds : FollowUp(i)
    \/ \E i \in CycleIds : LedgerFails(i)

LiveSpec ==
    Init /\ [][LiveNext]_vars /\ \A i \in CycleIds : WF_vars(CycleStep(i))

\* -------------------------------------------------------- cycles on a clock
\* A cycle on the running clock.  A cycle started earlier by the same user,
\* who has one credit, is ahead of it: it has read the record for its
\* deduction and is about to save.  That cycle is followed up to its save,
\* which can use up the credit the later cycle saw.
TimingStart == ThinkingDelayMs + MinAnalysisTimeMs

CycleAhead ==
    [IdleCycle EXCEPT !.pc = "decSave",
                      !.userCredits = UserDoc(1, FALSE),
                      !.doc = UserDoc(1, FALSE),
                      !.direction = "UP", !.confidence = 90,
                      !.decrement = "pending",
                      !.sent = <<thinkingMsg, typingMsg>>,
                      !.times = <<0, ThinkingDelayMs>>,
                      !.due = ThinkingDelayMs,
                      !.startTime = ThinkingDelayMs]

TimingInit ==
    /\ ledger = [u \in Users |-> UserDoc(1, FALSE)]
    /\ open = [c \in Conns |-> TRUE]
    /\ history = [c \in Conns |-> <<>>]
    /\ cyc = [i \in CycleIds |-> IF i = 1 THEN CycleAhead ELSE IdleCycle]
    /\ ledger0 = ledger
    /\ purchased = {}
    /\ snapshot = NoSnapshot
    /\ engine = NoEngineRun
    /\ clock = [timed |-> TRUE, now |-> TimingStart]

Tick ==
    /\ clock.timed
    /\ clock.now + TickMs <= TimingStart + MaxTicks * TickMs
    /\ clock' = [clock EXCEPT !.now = @ + TickMs]
    /\ UNCHANGED <<ledger, open, history, cyc, ledger0, purchased, snapshot,
                   engine>>

TimingNext ==
    \/ \E w \in Conns, u \in Users, p \in Pairs :
         clock.now = TimingStart /\ StartCycle(2, w, u, p)
    \/ \E i \in CycleIds \ {1} : GetCredits(i)
    \/ \E i \in CycleIds \ {1} : Delay600(i)
    \/ \E i \in CycleIds \ {1} : Analysis(i)
    \/ \E i \in CycleIds \ {1} : DecFind(i)
    \/ \E i \in CycleIds : DecSave(i)
    \/ \E i \in CycleIds \ {1} : Refresh(i)
    \/ \E i \in CycleIds \ {1} : FollowUp(i)
    \/ Tick

TimingSpec == TimingInit /\ [][TimingNext]_vars

\* ------------------------------------------- pairs the server cannot resolve
\* select_pair passes message.pair on unchecked, so a cycle can be started
\* for any text.  One cycle, for a supported or an unsupported pair.

RequestedPairs == Pairs \cup {"LTC/USDT"}

PairNext ==
    \/ \E w \in Conns, u \in Users, p \in RequestedPairs : StartCycle(1, w, u, p)
    \/ \E i \in CycleIds : GetCredits(i)
    \/ \E i \in CycleIds : SetCredits(i)
    \/ \E i \in CycleIds : ReGetCredits(i)
    \/ \E i \in CycleIds : Delay600(i)
    \/ \E i \in CycleIds : Analysis(i)
    \/ \E i \in CycleIds : DecFind(i)
    \/ \E i \in CycleIds : DecSave(i)
    \/ \E i \in CycleIds : Refresh(i)
    \/ \E i \in CycleIds : FollowUp(i)
    \/ \E i \in CycleIds : LedgerFails(i)
    \/ \E w \in Conns : CloseConn(w)
    \/ \E u \in Users : Purchase(u)
    \/ \E u \in Users : RevokeMembership(u)

PairSpec == Init /\ [][PairNext]_vars

\* ------------------------------------------------- GET /api/credits, by step
\* An invocation of the route uses a slot of cyc as its frame: userCredits is
\* the handler's local of that name, response what it answers.  isWhopEnabled
\* decides whether the membership of an unlimited user is verified.
Respond(c, status, body) == Finish([c EXCEPT !.response = Response(status, body)])

\* Lines 184-216 once userCredits is known: the membership check is made for
\* a user read as unlimited when Whop is enabled and the plan and company
\* ids are configured, otherwise the record is returned.
ApiAfterCredits(c, uc, whop) ==
    IF uc.exists /\ uc.hasUnlimitedAccess /\ whop.enabled /\ whop.ids
    THEN [c EXCEPT !.userCredits = uc, !.pc = "apiMembership",
                   !.whop = [@ EXCEPT !.enabled = whop.enabled, !.ids = whop.ids]]
    ELSE Respond([c EXCEPT !.userCredits = uc,
                           !.whop = [@ EXCEPT !.enabled = whop.enabled,
                                              !.ids = whop.ids]], 200, uc)

\* The request arrives; without a valid Whop token it is answered 401.
ApiStart(i, u, authorised) ==
    /\ cyc[i].pc = "idle"
    /\ \A j \in CycleIds : j < i => cyc[j].pc # "idle"
    /\ cyc' = [cyc EXCEPT ![i] =
                 IF authorised
                 THEN [IdleCycle EXCEPT !.pc = "apiGet", !.userId = u]
                 ELSE Respond([IdleCycle EXCEPT !.userId = u], 401, Absent)]
    /\ UNCHANGED <<ledger, open, history, ledger0, purchased, snapshot, engine,
                   clock>>

\* Variant of ApiGet that answers with the missing record.
ApiGet_NoInit(i, whop) ==
    /\ cyc[i].pc = "apiGet"
    /\ LET uc == getUserCredits(ledger, cyc[i].userId) IN
         cyc' = [cyc EXCEPT ![i] =
                   IF ~uc.exists
                   THEN Respond(cyc[i], 200, uc)
                   ELSE ApiAfterCredits(cyc[i], uc, whop)]
    /\ UNCHANGED <<ledger, open, history, ledger0, purchased, snapshot, engine,
                   clock>>

\* Line 178: the first read of the record.
ApiGet(i, whop) ==
    /\ cyc[i].pc = "apiGet"
    /\ LET uc == getUserCredits(ledger, cyc[i].userId) IN
         cyc' = [cyc EXCEPT ![i] =
                   IF ~uc.exists THEN [cyc[i] EXCEPT !.pc = "apiSet"]
                   ELSE ApiAfterCredits(cyc[i], uc, whop)]
    /\ UNCHANGED <<ledger, open, history, ledger0, purchased, snapshot, engine,
                   clock>>

\* Line 181: setUserCredits(userId, 10).
ApiSet(i) ==
    /\ cyc[i].pc = "apiSet"
    /\ ledger' = setUserCredits(ledger, cyc[i].userId, DefaultCredits)
    /\ cyc' = [cyc EXCEPT ![i] = [cyc[i] EXCEPT !.pc = "apiReGet",
                                               !.initialised = TRUE]]
    /\ UNCHANGED <<open, history, ledger0, purchased, snapshot, engine, clock>>

\* Line 182: the record is read again.
ApiReGet(i, whop) ==
    /\ cyc[i].pc = "apiReGet"
    /\ cyc' = [cyc EXCEPT ![i] =
                 ApiAfterCredits(cyc[i], getUserCredits(ledger, cyc[i].userId),
                                 whop)]
    /\ UNCHANGED <<ledger, open, history, ledger0, purchased, snapshot, engine,
                   clock>>

\* Variant of ApiMembership that revokes also when the listing throws.
ApiMembership_RevokeOnError(i, answer) ==
    /\ cyc[i].pc = "apiMembership"
    /\ LET c == [cyc[i] EXCEPT !.whop.membership = answer] IN
         cyc' = [cyc EXCEPT ![i] =
                   IF answer \in {"none", "error"} THEN [c EXCEPT !.pc = "apiRevoke"]
                   ELSE Respond(c, 200, c.userCredits)]
    /\ UNCHANGED <<ledger, open, history, ledger0, purchased, snapshot, engine,
                   clock>>

\* Lines 190-208: the membership list; with no active membership the
\* handler goes on to revoke, with one, or when the listing throws, it
\* answers with the record it has.
ApiMembership(i, answer) ==
    /\ cyc[i].pc = "apiMembership"
    /\ LET c == [cyc[i] EXCEPT !.whop.membership = answer] IN
         cyc' = [cyc EXCEPT ![i] =
                   IF answer = "none" THEN [c EXCEPT !.pc = "apiRevoke"]
                   ELSE Respond(c, 200, c.userCredits)]
    /\ UNCHANGED <<ledger, open, history, ledger0, purchased, snapshot, engine,
                   clock>>

\* Line 203: revokeUnlimitedAccess.
ApiRevoke(i) ==
    /\ cyc[i].pc = "apiRevoke"
    /\ ledger' = revokeUnlimitedAccess(ledger, cyc[i].userId)
    /\ cyc' = [cyc EXCEPT ![i] = [cyc[i] EXCEPT !.pc = "apiReGet2",
                                               !.whop.revoked = TRUE]]
    /\ UNCHANGED <<open, history, ledger0, purchased, snapshot, engine, clock>>

\* Line 204: the record is read after the revocation and returned.
ApiReGet2(i) ==
    /\ cyc[i].pc = "apiReGet2"
    /\ LET uc == getUserCredits(ledger, cyc[i].userId) IN
         cyc' = [cyc EXCEPT ![i] =
                   Respond([cyc[i] EXCEPT !.userCredits = uc], 200, uc)]
    /\ UNCHANGED <<ledger, open, history, ledger0, purchased, snapshot, engine,
                   clock>>

\* A ledger call of the route rejects: the outer catch answers 500, the
\* inner one (lines 206-209) goes on with the record the handler has.
ApiLedgerFails(i) ==
    /\ cyc[i].pc \in {"apiGet", "apiSet", "apiReGet", "apiRevoke", "apiReGet2"}
    /\ cyc' = [cyc EXCEPT ![i] =
                 IF cyc[i].pc \in {"apiRevoke", "apiReGet2"}
                 THEN Respond(cyc[i], 200, cyc[i].userCredits)
                 ELSE Respond([cyc[i] EXCEPT !.threw = TRUE], 500, Absent)]
    /\ UNCHANGED <<ledger, open, history, ledger0, purchased, snapshot, engine,
                   clock>>

\* Cycles and GET /api/credits requests side by side.
AccessNext ==
    \/ \E i \in CycleIds, w \in Conns, u \in Users, p \in Pairs : StartCycle(i, w, u, p)
    \/ \E i \in CycleIds : GetCredits(i)
    \/ \E i \in CycleIds : SetCredits(i)
    \/ \E i \in CycleIds : ReGetCredits(i)
    \/ \E i \in CycleIds : Delay600(i)
    \/ \E i \in CycleIds : Analysis(i)
    \/ \E i \in CycleIds : DecFind(i)
    \/ \E i \in CycleIds : DecSave(i)
    \/ \E i \in CycleIds : Refresh(i)
    \/ \E i \in CycleIds : FollowUp(i)
    \/ \E i \in CycleIds : LedgerFails(i)
    \/ \E u \in Users : Purchase(u)
    \/ \E i \in CycleIds, u \in Users, authorised \in BOOLEAN : ApiStart(i, u, authorised)
    \/ \E i \in CycleIds, whop \in WhopConfigs : ApiGet(i, whop)
    \/ \E i \in CycleIds : ApiSet(i)
    \/ \E i \in CycleIds, whop \in WhopConfigs : ApiReGet(i, whop)
    \/ \E i \in CycleIds, answer \in {"active", "none", "error"} : ApiMembership(i, answer)
    \/ \E i \in CycleIds : ApiRevoke(i)
    \/ \E i \in CycleIds : ApiReGet2(i)
    \/ \E i \in CycleIds : ApiLedgerFails(i)

AccessSpec == Init /\ [][AccessNext]_vars

\* ------------------------------------------------------------------ text
LowerCase ==
    <<"a", "b", "c", "d", "e", "f", "g", "h", "i", "j", "k", "l", "m",
      "n", "o", "p", "q", "r", "s", "t", "u", "v", "w", "x", "y", "z">>

UpperCase ==
    <<"A", "B", "C", "D", "E", "F", "G", "H", "I", "J", "K", "L", "M",
      "N", "O", "P", "Q", "R", "S", "T", "U", "V", "W", "X", "Y", "Z">>

\* String.prototype.toLowerCase / toUpperCase, character by character.
toLowerCase(str) ==
    [k \in 1..Len(str) |->
       IF \E n \in DOMAIN UpperCase : UpperCase[n] = str[k]
       THEN LowerCase[CHOOSE n \in DOMAIN UpperCase : UpperCase[n] = str[k]]
       ELSE str[k]]

toUpperCase(str) ==
    [k \in 1..Len(str) |->
       IF \E n \in DOMAIN LowerCase : LowerCase[n] = str[k]
       THEN UpperCase[CHOOSE n \in DOMAIN LowerCase : LowerCase[n] = str[k]]
       ELSE str[k]]

\* str.replace(/\s/g, "").
IsWhitespace(ch) == ch \in {" ", "\t", "\n"}

stripWhitespace(str) == SelectSeq(str, LAMBDA ch : ~IsWhitespace(ch))

\* pair.replace("/", ""): the first "/" is dropped.
dropSlash(str) ==
    IF \E k \in 1..Len(str) : str[k] = "/"
    THEN LET k == CHOOSE n \in 1..Len(str) :
                    str[n] = "/" /\ \A m \in 1..(n - 1) : str[m] # "/" IN
         SubSeq(str, 1, k - 1) \o SubSeq(str, k + 1, Len(str))
    ELSE str

\* String.prototype.includes.
includes(str, sub) ==
    \E k \in 0..(Len(str) - Len(sub)) : SubSeq(str, k + 1, k + Len(sub)) = sub

\* The characters of each trading pair.
PairText ==
    ("BTC/USDT" :> <<"B", "T", "C", "/", "U", "S", "D", "T">>)
    @@ ("ETH/USDT" :> <<"E", "T", "H", "/", "U", "S", "D", "T">>)
    @@ ("BNB/USDT" :> <<"B", "N", "B", "/", "U", "S", "D", "T">>)
    @@ ("SOL/USDT" :> <<"S", "O", "L", "/", "U", "S", "D", "T">>)
    @@ ("XRP/USDT" :> <<"X", "R", "P", "/", "U", "S", "D", "T">>)
    @@ ("DOGE/USDT" :> <<"D", "O", "G", "E", "/", "U", "S", "D", "T">>)
    @@ ("ADA/USDT" :> <<"A", "D", "A", "/", "U", "S", "D", "T">>)
    @@ ("EUR/USD" :> <<"E", "U", "R", "/", "U", "S", "D">>)
    @@ ("GBP/USD" :> <<"G", "B", "P", "/", "U", "S", "D">>)
    @@ ("AUD/USD" :> <<"A", "U", "D", "/", "U", "S", "D">>)

\* The supported pairs in the order of their enumeration.
tradingPairs ==
    <<"BTC/USDT", "ETH/USDT", "BNB/USDT", "SOL/USDT", "XRP/USDT",
      "DOGE/USDT", "ADA/USDT", "EUR/USD", "GBP/USD", "AUD/USD">>

HistoryCommand == <<"/", "h", "i", "s", "t", "o", "r", "y">>

\* Array.prototype.find with the predicate of line 519: the first pair, from
\* position k on, whose text without the slash occurs in upperContent; ""
\* when there is none.
RECURSIVE find(_, _, _)
find(pairs, k, upperContent) ==
    IF k > Len(pairs) THEN ""
    ELSE IF includes(upperContent, dropSlash(PairText[pairs[k]])) THEN pairs[k]
    ELSE find(pairs, k + 1, upperContent)

\* Variant of matchPair that goes through the pairs in the order of the
\* symbol mapping of the market data module.
matchPair_MappingOrder(content) ==
    find(
    <<"BTC/USDT", "ETH/USDT", "BNB/USDT", "XRP/USDT", "SOL/USDT",
      "ADA/USDT", "DOGE/USDT", "EUR/USD", "GBP/USD", "AUD/USD">>,
         1, stripWhitespace(toUpperCase(content)))

\* Lines 517-520: tradingPairs.find on the upper-cased content without
\* whitespace.
matchPair(content) ==
    find(tradingPairs, 1, stripWhitespace(toUpperCase(content)))

\* --------------------------------------------------------- history reply
RecentCount == 5

helpMsg == ServerMessage("bot_message", "help", "none", -1)

welcomeMsg == ServerMessage("bot_message", "welcome", "none", -1)

noHistoryMsg == ServerMessage("bot_message", "no_history", "none", -1)

historyMsg(text) == ServerMessage("bot_message", text, "none", -1)

\* Variant of slice that keeps the oldest entries.
slice_Oldest(h, n) == SubSeq(h, 1, IF Len(h) > n THEN n ELSE Len(h))

\* history.slice(-n).
slice(h, n) == SubSeq(h, IF Len(h) > n THEN Len(h) - n + 1 ELSE 1, Len(h))

\* One line of the reply; idx is the zero-based forEach index.
historyLine(pred, idx) ==
    LET directionLabel == IF pred.direction = "NEUTRAL" THEN "NEUTRAL"
                          ELSE pred.direction IN
    ToString(idx + 1) \o ". " \o pred.pair \o " - " \o directionLabel
        \o " (" \o ToString(pred.confidence) \o "%)\n"

RECURSIVE forEachLine(_, _, _)
forEachLine(recent, idx, historyText) ==
    IF idx >= Len(recent) THEN historyText
    ELSE forEachLine(recent, idx + 1,
                     historyText \o historyLine(recent[idx + 1], idx))

\* Lines 553-558: the text of a non-empty history.
formatHistory(h) ==
    LET recent == slice(h, RecentCount) IN
    forEachLine(recent, 0,
                "Last " \o ToString(Len(recent)) \o " Predictions:\n\n")

\* ------------------------------------------------------------ dispatcher
\* handlePairSelection entered from the dispatcher: up to its first await.
handlePairSelection(i, c, pair, userId) ==
    /\ cyc' = [cyc EXCEPT ![i] =
                 IF ~open[c.ws] THEN Finish(c)
                 ELSE [c EXCEPT !.pc = "getCredits", !.userId = userId,
                                !.pair = pair]]
    /\ UNCHANGED history

\* handleHistory: the liveness check, then the 500 ms timer.
handleHistory(i, c) ==
    /\ cyc' = [cyc EXCEPT ![i] =
                 IF ~open[c.ws] THEN Finish(c)
                 ELSE [c EXCEPT !.pc = "historyTimer"]]
    /\ UNCHANGED history

handleUserMessage(i, c, content, userId) ==
    IF ~open[c.ws]
    THEN cyc' = [cyc EXCEPT ![i] = Finish(c)] /\ UNCHANGED history
    ELSE IF toLowerCase(content) = HistoryCommand
         THEN handleHistory(i, c)
    ELSE IF matchPair(content) # ""
         THEN handlePairSelection(i, c, matchPair(content), userId)
    ELSE /\ cyc' = [cyc EXCEPT ![i] = [c EXCEPT !.pc = "helpTimer"]]
         /\ UNCHANGED history

\* Variant of handleNewSession that leaves the history in place.
handleNewSession_KeepHistory(i, c) ==
    /\ cyc' = [cyc EXCEPT ![i] =
                 IF ~open[c.ws] THEN Finish(c) ELSE Finish(Send(c, welcomeMsg))]
    /\ UNCHANGED history

handleNewSession(i, c) ==
    IF ~open[c.ws]
    THEN cyc' = [cyc EXCEPT ![i] = Finish(c)] /\ UNCHANGED history
    ELSE /\ history' = [history EXCEPT ![c.ws] = <<>>]
         /\ cyc' = [cyc EXCEPT ![i] = Finish(Send(c, welcomeMsg))]

\* Variant of onParseError that answers the sender.
onParseError_Reply(i, c) ==
    /\ cyc' = [cyc EXCEPT ![i] = Finish(Send(c, errorMsg))]
    /\ UNCHANGED history

\* Lines 348-350: the catch of the dispatcher logs and returns.
onParseError(i, c) ==
    /\ cyc' = [cyc EXCEPT ![i] = Finish(c)]
    /\ UNCHANGED history

\* Variant of Receive that runs every frame for "dev_user".
Receive_DevUserOnly(i, w, data) ==
    /\ cyc[i].pc = "idle"
    /\ \A j \in CycleIds : j < i => cyc[j].pc # "idle"
    /\ open[w]
    /\ LET c == [IdleCycle EXCEPT !.ws = w, !.inbound = data]
           message == JSONparse(data)
           userId == "dev_user" IN
         IF message = ParseError THEN onParseError(i, c)
         ELSE IF message.type = "select_pair" /\ message.pair # ""
              THEN handlePairSelection(i, c, message.pair, userId)
         ELSE IF message.type = "user_message" /\ message.content # <<>>
              THEN handleUserMessage(i, c, message.content, userId)
         ELSE IF message.type = "history" THEN handleHistory(i, c)
         ELSE IF message.type = "new_session" THEN handleNewSession(i, c)
         ELSE cyc' = [cyc EXCEPT ![i] = Finish(c)] /\ UNCHANGED history
    /\ UNCHANGED <<ledger, open, ledger0, engine, clock, snapshot, purchased>>

\* ws.on('message'): a frame arrives on an open connection and is
\* dispatched; a missing userId becomes "dev_user".
Receive(i, w, data) ==
    /\ cyc[i].pc = "idle"
    /\ \A j \in CycleIds : j < i => cyc[j].pc # "idle"
    /\ open[w]
    /\ LET c == [IdleCycle EXCEPT !.ws = w, !.inbound = data]
           message == JSONparse(data)
           userId == IF message.userId = "" THEN "dev_user" ELSE message.userId IN
         IF message = ParseError THEN onParseError(i, c)
         ELSE IF message.type = "select_pair" /\ message.pair # ""
              THEN handlePairSelection(i, c, message.pair, userId)
         ELSE IF message.type = "user_message" /\ message.content # <<>>
              THEN handleUserMessage(i, c, message.content, userId)
         ELSE IF message.type = "history" THEN handleHistory(i, c)
         ELSE IF message.type = "new_session" THEN handleNewSession(i, c)
         ELSE cyc' = [cyc EXCEPT ![i] = Finish(c)] /\ UNCHANGED history
    /\ UNCHANGED <<ledger, open, ledger0, engine, clock, snapshot, purchased>>

\* The 500 ms timer of handleHistory fires.
HistoryTimer(i) ==
    /\ cyc[i].pc = "historyTimer"
    /\ LET c == cyc[i]
           h == history[c.ws] IN
         cyc' = [cyc EXCEPT ![i] =
                   IF ~open[c.ws] THEN Finish(c)
                   ELSE IF Len(h) = 0 THEN Finish(Send(c, noHistoryMsg))
                   ELSE Finish(Send(c, historyMsg(formatHistory(h))))]
    /\ UNCHANGED <<ledger, open, history, ledger0, engine, clock, snapshot, purchased>>

\* The 500 ms timer of the help reply fires.
HelpTimer(i) ==
    /\ cyc[i].pc = "helpTimer"
    /\ cyc' = [cyc EXCEPT ![i] =
                 IF ~open[cyc[i].ws] THEN Finish(cyc[i])
                 ELSE Finish(Send(cyc[i], helpMsg))]
    /\ UNCHANGED <<ledger, open, history, ledger0, engine, clock, snapshot, purchased>>


\* --------------------------------------------- the session, frame by frame
\* Contents of user_message frames.
ContentHistory == HistoryCommand

ContentHistoryMixedCase == <<"/", "H", "i", "s", "T", "O", "R", "Y">>

ContentHistoryTrailingSpace == HistoryCommand \o <<" ">>

ContentHistoryInText == <<"m", "y", " ">> \o HistoryCommand

ContentHistoryAndPair ==
    HistoryCommand \o <<" ", "b", "t", "c", "u", "s", "d", "t">>

ContentPair == <<"b", "t", "c", " ", "u", "s", "d", "t">>

ContentOther == <<"h", "i">>

ContentTwoPairs == <<"x", "r", "p", "u", "s", "d", "t", " ", "S", "o", "l", "U", "s", "d", "t">>

ContentForex == <<"E", "u", "r", " ", "U", "s", "d", "?">>

ContentSlashed == <<"B", "T", "C", "/", "U", "S", "D", "T">>

Contents ==
    {ContentHistory, ContentHistoryMixedCase, ContentHistoryTrailingSpace,
     ContentHistoryInText, ContentHistoryAndPair, ContentPair, ContentOther,
     ContentTwoPairs, ContentForex, ContentSlashed}

Frames ==
    {Malformed,
     ClientMessage("select_pair", "", <<>>, ""),
     ClientMessage("history", "", <<>>, ""),
     ClientMessage("new_session", "", <<>>, ""),
     ClientMessage("ping", "", <<>>, "")}
    \cup {ClientMessage("select_pair", p, <<>>, u) : p \in Pairs, u \in Users \cup {""}}
    \cup {ClientMessage("user_message", "", content, "") : content \in Contents}

\* History entries of earlier cycles.
Entries ==
    {[pair |-> p, direction |-> d.direction, confidence |-> d.confidence] :
       p \in Pairs, d \in {x \in Decisions : x.direction # "DOWN"}}

\* A session in progress: the connection is open, its earlier cycles have
\* left zero or two entries in the history, no handler is running.
SessionInit ==
    /\ ledger \in [Users -> {Absent} \cup
                     {UserDoc(n, FALSE) : n \in 0..MaxInitCredits}]
    /\ open = [c \in Conns |-> TRUE]
    /\ history \in [Conns -> {<<>>} \cup {<<e, f>> : e, f \in Entries}]
    /\ cyc = [i \in CycleIds |-> IdleCycle]
    /\ ledger0 = ledger
    /\ purchased = {}
    /\ snapshot = NoSnapshot
    /\ engine = NoEngineRun
    /\ clock = Untimed

\* The dispatcher and the handlers it completes by itself; a cycle it starts
\* stays at its first ledger read.
SessionNext ==
    \/ \E i \in CycleIds, w \in Conns, data \in Frames : Receive(i, w, data)
    \/ \E i \in CycleIds : HistoryTimer(i)
    \/ \E i \in CycleIds : HelpTimer(i)
    \/ \E w \in Conns : CloseConn(w)

SessionSpec == SessionInit /\ [][SessionNext]_vars

\* ------------------------------------------------ the history reply alone
MaxHistory == 7         \* longest history a session starts with

RECURSIVE Histories(_)
Histories(n) ==
    IF n = 0 THEN {<<>>}
    ELSE Histories(n - 1)
         \cup {Append(h, e) : h \in {g \in Histories(n - 1) : Len(g) = n - 1},
                              e \in Entries}

HistoryFrames ==
    {ClientMessage("history", "", <<>>, ""),
     ClientMessage("user_message", "", ContentHistoryMixedCase, "")}

HistoryInit ==
    /\ ledger = [u \in Users |-> Absent]
    /\ open = [c \in Conns |-> TRUE]
    /\ history \in [Conns -> Histories(MaxHistory)]
    /\ cyc = [i \in CycleIds |-> IdleCycle]
    /\ ledger0 = ledger
    /\ purchased = {}
    /\ snapshot = NoSnapshot
    /\ engine = NoEngineRun
    /\ clock = Untimed

HistoryNext ==
    \/ \E i \in CycleIds, w \in Conns, data \in HistoryFrames : Receive(i, w, data)
    \/ \E i \in CycleIds : HistoryTimer(i)
    \/ \E w \in Conns : CloseConn(w)

HistorySpec == HistoryInit /\ [][HistoryNext]_vars

\* ------------------------------------------------ two connections at once
\* Two connections of the same user, just opened: each connection handler
\* has created its own empty predictionHistory.
BothConns == {"ws1", "ws2"}

ConnFrames ==
    {ClientMessage("select_pair", p, <<>>, "") : p \in Pairs}
    \cup {ClientMessage("history", "", <<>>, ""),
          ClientMessage("new_session", "", <<>>, ""),
          ClientMessage("user_message", "", ContentOther, "")}

ConnInit ==
    /\ ledger = [u \in Users |-> UserDoc(MaxInitCredits, FALSE)]
    /\ open = [c \in BothConns |-> TRUE]
    /\ history = [c \in BothConns |-> <<>>]
    /\ cyc = [i \in CycleIds |-> IdleCycle]
    /\ ledger0 = ledger
    /\ purchased = {}
    /\ snapshot = NoSnapshot
    /\ engine = NoEngineRun
    /\ clock = Untimed

ConnNext ==
    \/ \E i \in CycleIds, w \in BothConns, data \in ConnFrames : Receive(i, w, data)
    \/ \E i \in CycleIds : GetCredits(i)
    \/ \E i \in CycleIds : Delay600(i)
    \/ \E i \in CycleIds : Analysis(i)
    \/ \E i \in CycleIds : DecFind(i)
    \/ \E i \in CycleIds : DecSave(i)
    \/ \E i \in CycleIds : Refresh(i)
    \/ \E i \in CycleIds : FollowUp(i)
    \/ \E i \in CycleIds : HistoryTimer(i)
    \/ \E i \in CycleIds : HelpTimer(i)

ConnSpec == ConnInit /\ [][ConnNext]_vars

\* ------------------------------------------ POST /api/credits/purchase, by step
\* An invocation of the route uses a slot of cyc as its frame.  Without a
\* valid token (Whop enabled) it answers 401, with success false it answers
\* at once, otherwise it awaits grantUnlimitedAccess.
PurchaseStart(i, u, success, authorised) ==
    /\ cyc[i].pc = "idle"
    /\ \A j \in CycleIds : j < i => cyc[j].pc # "idle"
    /\ LET c == [IdleCycle EXCEPT !.userId = u,
                                  !.request = PurchaseRequest(success, authorised)] IN
         cyc' = [cyc EXCEPT ![i] =
                   IF ~authorised THEN Respond(c, 401, Absent)
                   ELSE IF success THEN [c EXCEPT !.pc = "purchaseGrant"]
                   ELSE Respond(c, 200, Absent)]
    /\ UNCHANGED <<ledger, open, history, ledger0, purchased, snapshot, engine,
                   clock>>

\* Variant of PurchaseGrant that also tops the balance up.
PurchaseGrant_TopUp(i) ==
    /\ cyc[i].pc = "purchaseGrant"
    /\ ledger' = setUserCredits(grantUnlimitedAccess(ledger, cyc[i].userId),
                                cyc[i].userId, DefaultCredits)
    /\ purchased' = purchased \cup {cyc[i].userId}
    /\ cyc' = [cyc EXCEPT ![i] = [cyc[i] EXCEPT !.pc = "purchaseRead"]]
    /\ UNCHANGED <<open, history, ledger0, snapshot, engine, clock>>

\* Line 299: grantUnlimitedAccess(userId).
PurchaseGrant(i) ==
    /\ cyc[i].pc = "purchaseGrant"
    /\ ledger' = grantUnlimitedAccess(ledger, cyc[i].userId)
    /\ purchased' = purchased \cup {cyc[i].userId}
    /\ cyc' = [cyc EXCEPT ![i] = [cyc[i] EXCEPT !.pc = "purchaseRead"]]
    /\ UNCHANGED <<open, history, ledger0, snapshot, engine, clock>>

\* Lines 300-304: the record is read and returned.
PurchaseRead(i) ==
    /\ cyc[i].pc = "purchaseRead"
    /\ cyc' = [cyc EXCEPT ![i] =
                 Respond(cyc[i], 200, getUserCredits(ledger, cyc[i].userId))]
    /\ UNCHANGED <<ledger, open, history, ledger0, purchased, snapshot, engine,
                   clock>>

\* A ledger call of the route rejects: the catch block answers 500.
PurchaseFails(i) ==
    /\ cyc[i].pc \in {"purchaseGrant", "purchaseRead"}
    /\ cyc' = [cyc EXCEPT ![i] = Respond([cyc[i] EXCEPT !.threw = TRUE], 500, Absent)]
    /\ UNCHANGED <<ledger, open, history, ledger0, purchased, snapshot, engine,
                   clock>>

\* ------------------------------------------------------------- two users
\* Two users, each new or with one credit: frames without userId and frames
\* of a second user start cycles, and either user can send a purchase.
BothUsers == {"dev_user", "user_2"}

UserFrames ==
    {ClientMessage("select_pair", p, <<>>, u) : p \in Pairs, u \in {"", "user_2"}}
    \cup {ClientMessage("user_message", "", ContentPair, u) : u \in {"", "user_2"}}

UsersInit ==
    /\ ledger \in [BothUsers -> {Absent, UserDoc(1, FALSE)}]
    /\ open = [c \in Conns |-> TRUE]
    /\ history = [c \in Conns |-> <<>>]
    /\ cyc = [i \in CycleIds |-> IdleCycle]
    /\ ledger0 = ledger
    /\ purchased = {}
    /\ snapshot = NoSnapshot
    /\ engine = NoEngineRun
    /\ clock = Untimed

UsersNext ==
    \/ \E i \in CycleIds, w \in Conns, data \in UserFrames : Receive(i, w, data)
    \/ \E i \in CycleIds : GetCredits(i)
    \/ \E i \in CycleIds : SetCredits(i)
    \/ \E i \in CycleIds : ReGetCredits(i)
    \/ \E i \in CycleIds : Delay600(i)
    \/ \E i \in CycleIds : Analysis(i)
    \/ \E i \in CycleIds : DecFind(i)
    \/ \E i \in CycleIds : DecSave(i)
    \/ \E i \in CycleIds : Refresh(i)
    \/ \E i \in CycleIds : FollowUp(i)
    \/ \E i \in CycleIds, u \in BothUsers, success \in BOOLEAN, authorised \in BOOLEAN :
         PurchaseStart(i, u, success, authorised)
    \/ \E i \in CycleIds : PurchaseGrant(i)
    \/ \E i \in CycleIds : PurchaseRead(i)
    \/ \E i \in CycleIds : PurchaseFails(i)

UsersSpec == UsersInit /\ [][UsersNext]_vars

\* ------------------------------------------------------- fetchMarketData
MaxProviderCandles == 101   \* most points the history endpoint answers with

\* Date.now() values, in ms: on a five-minute boundary, and between two.
NowSamples == {900000000, 900137000}


\* The history endpoint's Data.Data: k points five minutes apart, oldest
\* first, time in seconds; the newest is the candle of the current period,
\* or an earlier one when the provider lags.
histoPoints(now, k, lag) ==
    LET newest == (now \div FiveMinutesMs) * 300 - lag * 300 IN
    [j \in 1..k |-> [time |-> newest - (k - j) * 300]]

\* Lines 149-156: histoPoints.map.
toCandles(points) ==
    [j \in 1..Len(points) |->
       [timestamp |-> points[j].time * 1000, synthetic |-> FALSE]]

\* Array.from({ length: needed }, ...): candle i (from 0) is stamped
\* now - (needed - i) * 5 minutes.
syntheticCandles(now, needed) ==
    [j \in 1..needed |->
       [timestamp |-> now - (needed - (j - 1)) * FiveMinutesMs,
        synthetic |-> TRUE]]

\* What the three requests of one call can answer.  "networkError" is a
\* rejected fetch; "notOk" a response whose status is not 2xx; "noPrice" a
\* price response without the quote; "responseError" a history response
\* with Response = "Error"; "data" a history response with k points.
PriceAnswers == {"ok", "notOk", "noPrice", "networkError"}

StatsAnswers == {"ok", "notOk", "networkError"}

HistoAnswers == {"data", "notOk", "responseError", "networkError"}

\* fetchMarketData: pairToSymbols, the price request, the 24h statistic, the
\* history request; request records what the provider answered.
fetchMarketData(pair, now, price, stats, histo, k, lag) ==
    LET request == [pair |-> pair, price |-> price, stats |-> stats,
                    histo |-> histo] IN
    IF \/ pairToSymbols(pair) = "throw"
       \/ price # "ok"
       \/ stats = "networkError"
       \/ histo = "networkError"
    THEN [status |-> "throw", provided |-> 0, candles |-> <<>>,
          request |-> request]
    ELSE IF histo \in {"notOk", "responseError"}
         THEN [status |-> "ok", provided |-> 0,
               candles |-> syntheticCandles(now, CandleLimit),
               request |-> request]
    ELSE LET candles == toCandles(histoPoints(now, k, lag)) IN
         [status |-> "ok", provided |-> k,
          candles |-> IF Len(candles) < CandleLimit
                      THEN syntheticCandles(now, CandleLimit - Len(candles))
                             \o candles
                      ELSE candles,
          request |-> request]

MarketInit ==
    /\ ledger = [u \in Users |-> Absent]
    /\ open = [c \in Conns |-> TRUE]
    /\ history = [c \in Conns |-> <<>>]
    /\ cyc = [i \in CycleIds |-> IdleCycle]
    /\ ledger0 = ledger
    /\ purchased = {}
    /\ snapshot = NoSnapshot
    /\ engine = NoEngineRun
    /\ clock = Untimed

\* One call of fetchMarketData, from the request to the returned snapshot.
FetchMarketData(pair, now, price, stats, histo, k, lag) ==
    /\ snapshot = NoSnapshot
    /\ snapshot' = fetchMarketData(pair, now, price, stats, histo, k, lag)
    /\ UNCHANGED <<ledger, open, history, cyc, ledger0, engine, clock, purchased>>

MarketNext ==
    \E pair \in RequestedPairs, now \in NowSamples, price \in PriceAnswers,
       stats \in StatsAnswers, histo \in HistoAnswers,
       k \in 0..MaxProviderCandles, lag \in {0, 1} :
        FetchMarketData(pair, now, price, stats, histo, k, lag)

MarketSpec == MarketInit /\ [][MarketNext]_vars


\* ================================================================ claims
Types(s) == [k \in 1..Len(s) |-> s[k].type]

Actionable(d) == d \in {"UP", "DOWN"}

\* The pre-flight check of the cycle passed: unlimited, or credits > 0.
PreflightPassed(c) ==
    /\ c.userCredits.exists
    /\ c.userCredits.hasUnlimitedAccess \/ c.userCredits.credits > 0

\* No other cycle has started for the user of cycle i, and no purchase or
\* revocation has touched that user's record.
Solo(i) ==
    /\ cyc[i].userId \notin purchased
    /\ \A j \in CycleIds \ {i} :
         cyc[j].pc = "idle" \/ cyc[j].userId # cyc[i].userId

\* The five messages of a completed cycle, in order, all delivered.
SuccessOrder(c) ==
    /\ Len(c.sent) = 5
    /\ c.sent[1] = thinkingMsg
    /\ c.sent[2] = typingMsg
    /\ c.sent[3] = predictionMsg(c.direction)
    /\ c.sent[4].type = "credits_update" /\ c.sent[4].delivered
    /\ c.sent[5] = followUpMsg(c.direction)

\* C1 as stated: every finished cycle whose pre-flight check passed, that
\* obtained a decision, did not end in the catch block and whose connection
\* is still open has sent exactly thinking, typing, prediction,
\* credits_update, follow-up, in this order.
C1_Original ==
    \A i \in CycleIds :
        LET c == cyc[i] IN
        (c.pc = "done" /\ PreflightPassed(c) /\ c.direction # "none"
           /\ ~c.threw /\ open[c.ws])
        => SuccessOrder(c)

\* C1 amended: the same order for every finished cycle that, in addition,
\* was not refused by the deduction step (decrement did not return false).
C1_FixedOrder ==
    \A i \in CycleIds :
        LET c == cyc[i] IN
        (c.pc = "done" /\ PreflightPassed(c) /\ c.direction # "none"
           /\ ~c.threw /\ c.decrement # "false" /\ open[c.ws])
        => SuccessOrder(c)

\* C1 witness: a cycle completed in order while another cycle on the same
\* connection was in flight and had already sent messages.
C1_Witness ==
    \E i, j \in CycleIds :
        /\ i # j
        /\ cyc[i].pc = "done" /\ SuccessOrder(cyc[i]) /\ open[cyc[i].ws]
        /\ cyc[j].ws = cyc[i].ws
        /\ cyc[j].pc \in {"analysis", "decFind", "decSave", "refresh"}
        /\ Len(cyc[j].sent) >= 2

\* The record of cycle i's user was found at the first read, not unlimited
\* and with credits <= 0.
StartedExhausted(c) ==
    /\ ~c.initialised
    /\ c.userCredits.exists
    /\ ~c.userCredits.hasUnlimitedAccess
    /\ c.userCredits.credits <= 0

\* No cycle but i has started and no purchase has been made: whatever
\* differs from the initial state is the work of cycle i.
Alone(i) ==
    /\ purchased = {}
    /\ \A j \in CycleIds \ {i} : cyc[j].pc = "idle"

\* C2: a cycle that starts for a non-unlimited user with credits <= 0 makes
\* one send, insufficient_credits with credits 0, and stops: it never reaches
\* the analysis, the decrement or the history, and when it is the only
\* activity the ledger and the history are those of the initial state.
C2_InsufficientAtStart ==
    \A i \in CycleIds :
        LET c == cyc[i] IN
        StartedExhausted(c) =>
            /\ c.pc = "done"
            /\ Types(c.sent) = <<"insufficient_credits">>
            /\ c.sent[1].credits = 0
            /\ ~c.pushed /\ c.decrement = "none" /\ c.direction = "none"
            /\ Alone(i) => (ledger = ledger0 /\ history[c.ws] = <<>>)

C2_Witness ==
    \E i \in CycleIds :
        /\ StartedExhausted(cyc[i])
        /\ cyc[i].pc = "done"
        /\ Len(cyc[i].sent) = 1 /\ cyc[i].sent[1].delivered
        /\ ledger[cyc[i].userId] = ledger0[cyc[i].userId]

\* C3: alone on its user's record, a cycle with an UP or DOWN decision for a
\* non-unlimited user with n > 0 credits leaves n-1 stored, and the client
\* gets prediction and then credits_update with credits n-1.
C3_DeductsOne ==
    \A i \in CycleIds :
        LET c == cyc[i]
            n == c.userCredits.credits IN
        (c.pc \in {"followUp", "done"} /\ c.pushed /\ ~c.threw
           /\ Actionable(c.direction)
           /\ c.userCredits.exists /\ ~c.userCredits.hasUnlimitedAccess /\ n > 0
           /\ Solo(i) /\ open[c.ws])
        => /\ ledger[c.userId].credits = n - 1
           /\ Len(c.sent) >= 4
           /\ c.sent[3] = predictionMsg(c.direction)
           /\ c.sent[4] = creditsUpdateMsg(n - 1)

C3_Witness ==
    \E i \in CycleIds :
        /\ cyc[i].pc = "done" /\ cyc[i].pushed /\ ~cyc[i].threw
        /\ Actionable(cyc[i].direction)
        /\ ~cyc[i].initialised
        /\ cyc[i].userCredits.credits = MaxInitCredits
        /\ Solo(i) /\ open[cyc[i].ws]
        /\ ledger[cyc[i].userId].credits = MaxInitCredits - 1

\* C4: a cycle with a NEUTRAL decision never calls decrement; on an open
\* connection it still appends its history entry and sends prediction and
\* credits_update; alone on its user's record it leaves the stored credits
\* at the value it read.
C4_NeutralFree ==
    \A i \in CycleIds :
        LET c == cyc[i] IN
        c.direction = "NEUTRAL" =>
            /\ c.decrement = "none"
            /\ c.pc \in {"refresh", "followUp", "done"}
            /\ (c.pc \in {"refresh", "followUp"} \/ (c.pc = "done" /\ open[c.ws]))
               => (c.pushed /\ Len(c.sent) >= 3
                     /\ c.sent[3].type = "prediction")
            /\ (c.pc = "followUp" \/ (c.pc = "done" /\ open[c.ws] /\ ~c.threw))
               => (Len(c.sent) >= 4 /\ c.sent[4].type = "credits_update")
            /\ Solo(i) => ledger[c.userId].credits = c.userCredits.credits

C4_Witness ==
    \E i \in CycleIds :
        /\ cyc[i].direction = "NEUTRAL" /\ cyc[i].pc = "done"
        /\ ~cyc[i].userCredits.hasUnlimitedAccess
        /\ cyc[i].pushed
        /\ Len(cyc[i].sent) = 5 /\ cyc[i].sent[4] = creditsUpdateMsg(cyc[i].userCredits.credits)
        /\ history[cyc[i].ws] # <<>>

\* C5: when decrement returns false in a cycle, the cycle sends
\* insufficient_credits and stops: no prediction, no credits_update, no
\* history entry; the refusal was decided on a document without balance and
\* the write of decrementUserCredits was not reached.
C5_RefusedDeduction ==
    \A i \in CycleIds :
        LET c == cyc[i] IN
        c.decrement = "false" =>
            /\ c.pc = "done"
            /\ ~c.pushed
            /\ Types(c.sent) = <<"bot_message", "typing", "insufficient_credits">>
            /\ c.sent[3].credits = 0
            /\ ~c.doc.exists \/ c.doc.credits <= 0

C5_Witness ==
    \E i \in CycleIds :
        /\ cyc[i].decrement = "false"
        /\ cyc[i].sent[3].delivered
        /\ cyc[i].userCredits.credits > 0

\* Cycles whose decrementUserCredits call wrote a balance and returned true.
Saved(u) == {i \in CycleIds : cyc[i].userId = u /\ cyc[i].decrement = "saved"}

\* C6 as stated: for a user that is never unlimited, once no decrement is
\* between its read and its write, the number of decrement calls that
\* returned true equals the fall of the stored credits.
C6_AtomicDecrement ==
    \A u \in Users :
        (/\ ledger0[u].exists
         /\ u \notin purchased
         /\ \A i \in CycleIds : cyc[i].userId = u => cyc[i].pc # "decSave")
        => Cardinality(Saved(u)) = ledger0[u].credits - ledger[u].credits

\* Cycles that sent an actionable prediction to the client of user u.
ActionableSent(u) ==
    {i \in CycleIds : /\ cyc[i].userId = u
                      /\ cyc[i].pushed
                      /\ Actionable(cyc[i].direction)
                      /\ cyc[i].sent[3].delivered}

\* C7 as stated: a user that never has unlimited access and whose record
\* holds n credits is sent at most n actionable predictions.
C7_OnePerCredit ==
    \A u \in Users :
        (ledger0[u].exists /\ u \notin purchased)
        => Cardinality(ActionableSent(u)) <= ledger0[u].credits

\* C8: the stored credits of every user are >= 0 in every reachable state.
C8_NonNegative == \A u \in Users : ledger[u].credits >= 0

\* C8 witness: two concurrent deductions both wrote, and the balance is 0.
C8_Witness ==
    \E u \in Users :
        /\ ledger[u].exists /\ ledger[u].credits = 0
        /\ Cardinality(Saved(u)) = 2

\* C9: decrementUserCredits on a document with credits = 0 and no unlimited
\* access returns false (the cycle ends refused) without reaching the write.
C9_ZeroReturnsFalse ==
    \A i \in CycleIds :
        cyc[i].doc = UserDoc(0, FALSE)
        => (cyc[i].decrement = "false" /\ cyc[i].pc = "done")

C9_Witness ==
    \E i \in CycleIds :
        /\ cyc[i].decrement = "false"
        /\ cyc[i].doc = UserDoc(0, FALSE)
        /\ ledger[cyc[i].userId] = UserDoc(0, FALSE)

\* C10: decrementUserCredits on a document with hasUnlimitedAccess = true
\* returns true (the cycle goes on to deliver) and does not reach the write,
\* whatever the balance (0 included).
C10_UnlimitedNoOp ==
    \A i \in CycleIds :
        (cyc[i].doc.exists /\ cyc[i].doc.hasUnlimitedAccess)
        => /\ cyc[i].decrement = "true"
           /\ cyc[i].pc \in {"refresh", "followUp", "done"}
           /\ cyc[i].pushed

C10_Witness ==
    \E i \in CycleIds :
        /\ cyc[i].decrement = "true"
        /\ cyc[i].doc.hasUnlimitedAccess
        /\ cyc[i].doc.credits = 0
        /\ ledger[cyc[i].userId].credits = 0

\* C11: a cycle in which the primary and the fallback model call both fail
\* aborts: it ends in the catch block without a decision, sends neither
\* prediction nor credits_update, never calls decrement and appends nothing;
\* alone on its user's record it leaves the record as it read it, and alone
\* on the connection it leaves the history empty.
C11_ModelsUnavailable ==
    \A i \in CycleIds :
        LET c == cyc[i] IN
        c.bothFailed =>
            /\ c.pc = "done" /\ c.threw
            /\ c.direction = "none" /\ ~c.pushed /\ c.decrement = "none"
            /\ \A k \in 1..Len(c.sent) :
                  c.sent[k].type \notin {"prediction", "credits_update"}
            /\ Solo(i) => ledger[c.userId] = c.userCredits
            /\ Alone(i) => history[c.ws] = <<>>

C11_Witness ==
    \E i \in CycleIds :
        /\ cyc[i].bothFailed /\ cyc[i].pc = "done"
        /\ Solo(i) /\ open[cyc[i].ws]
        /\ ~cyc[i].initialised
        /\ ledger[cyc[i].userId] = UserDoc(MaxInitCredits, FALSE)
        /\ history[cyc[i].ws] = <<>>

\* The bot_message entries of a send log.
BotMessages(s) == {k \in 1..Len(s) : s[k].type = "bot_message"}

\* C12 as stated: in a cycle where both models fail and the connection stays
\* open, exactly one bot_message is sent, the unavailable-service one.
C12_Original ==
    \A i \in CycleIds :
        LET c == cyc[i] IN
        (c.bothFailed /\ open[c.ws])
        => /\ Cardinality(BotMessages(c.sent)) = 1
           /\ \A k \in BotMessages(c.sent) : c.sent[k] = errorMsg

\* C12 amended: such a cycle has sent the thinking bot_message and typing
\* before the analysis; after the failure it sends exactly one more message,
\* the unavailable-service bot_message, when the connection is open at the
\* catch, and nothing when it is closed.
C12_OneFailureMessage ==
    \A i \in CycleIds :
        LET c == cyc[i] IN
        c.bothFailed =>
            /\ c.pc = "done"
            /\ Len(c.sent) \in {2, 3}
            /\ c.sent[1].type = "bot_message" /\ c.sent[1].content = "analyzing"
            /\ c.sent[2] = typingMsg
            /\ Len(c.sent) = 3 => c.sent[3] = errorMsg
            /\ open[c.ws] => Len(c.sent) = 3

C12_Witness ==
    \E i \in CycleIds :
        /\ cyc[i].bothFailed
        /\ open[cyc[i].ws]
        /\ cyc[i].sent = <<thinkingMsg, typingMsg, errorMsg>>

\* C13 as stated: no cycle calls send on a connection that has closed.
C13_NoSendAfterClose ==
    \A i \in CycleIds :
        \A k \in 1..Len(cyc[i].sent) : cyc[i].sent[k].delivered

\* C14: the step in which a ledger call or the analysis of cycle i fails
\* ends the cycle inside its handler: on an open connection the cycle's
\* send log grows by the failure bot_message only, on a closed one by
\* nothing; the connection, the ledger, the history and every other cycle
\* are left as they were.
C14_FailureContained ==
    [][\A i \in CycleIds :
         (~cyc[i].threw /\ cyc'[i].threw) =>
            /\ cyc'[i].pc = "done"
            /\ cyc'[i].sent = IF open[cyc[i].ws]
                              THEN Append(cyc[i].sent, errorMsg)
                              ELSE cyc[i].sent
            /\ open' = open /\ ledger' = ledger /\ history' = history
            /\ \A j \in CycleIds \ {i} : cyc'[j] = cyc[j]]_vars

\* C14 witness: after a cycle failed and said so, a later cycle on the same
\* open connection was started and delivered its prediction.
C14_Witness ==
    \E i, j \in CycleIds :
        /\ i < j
        /\ cyc[i].threw /\ cyc[i].pc = "done"
        /\ cyc[i].sent = <<errorMsg>>
        /\ cyc[j].ws = cyc[i].ws /\ open[cyc[j].ws]
        /\ cyc[j].pushed /\ cyc[j].sent[3].delivered

\* C15: the step that receives an undecodable frame sends nothing and leaves
\* the history, the ledger, the connection and every other handler as they
\* were; and whenever the connection is open and a handler slot is free, a
\* history request can still be received and is handed to handleHistory.
C15_MalformedDropped ==
    /\ [][\A i \in CycleIds :
            (cyc[i].pc = "idle" /\ cyc'[i].inbound = Malformed) =>
               /\ cyc'[i].pc = "done" /\ cyc'[i].sent = <<>>
               /\ history' = history /\ ledger' = ledger /\ open' = open
               /\ \A j \in CycleIds \ {i} : cyc'[j] = cyc[j]]_vars
    /\ [](\A i \in CycleIds \ {1} :
            (cyc[i - 1].inbound = Malformed /\ cyc[i].pc = "idle"
               /\ open[cyc[i - 1].ws])
            => ENABLED (/\ Receive(i, cyc[i - 1].ws,
                                   ClientMessage("history", "", <<>>, ""))
                        /\ cyc'[i].pc = "historyTimer"))

\* C15 witness: after an undecodable frame, a history request on the same
\* connection was answered.
C15_Witness ==
    \E i, j \in CycleIds :
        /\ i < j
        /\ cyc[i].inbound = Malformed /\ cyc[i].sent = <<>>
        /\ cyc[j].ws = cyc[i].ws /\ open[cyc[j].ws]
        /\ cyc[j].inbound.type = "history"
        /\ Len(cyc[j].sent) = 1 /\ cyc[j].sent[1].delivered

\* The frame that started handler c is a user_message with the literal
\* /history somewhere in its content, in any letter case.
MentionsHistory(c) ==
    /\ c.inbound.wellFormed /\ c.inbound.type = "user_message"
    /\ includes(toLowerCase(c.inbound.content), HistoryCommand)

\* C16 as stated: every such user_message goes to the history handler: it
\* does not start a cycle and does not get the no-pair-matched help reply.
C16_HistoryAnywhere ==
    \A i \in CycleIds :
        MentionsHistory(cyc[i]) =>
            /\ cyc[i].pc \in {"historyTimer", "done"}
            /\ \A k \in 1..Len(cyc[i].sent) : cyc[i].sent[k] # helpMsg

\* The reply the claim describes for history h with n > 0 entries: line k of
\* min(n,5) is entry n - min(n,5) + k.
ExpectedLine(h, k) ==
    LET n == Len(h)
        m == IF n < 5 THEN n ELSE 5
        e == h[n - m + k] IN
    IF k > m THEN ""
    ELSE ToString(k) \o ". " \o e.pair \o " - " \o e.direction
           \o " (" \o ToString(e.confidence) \o "%)\n"

ExpectedText(h) ==
    "Last " \o ToString(IF Len(h) < 5 THEN Len(h) ELSE 5) \o " Predictions:\n\n"
      \o ExpectedLine(h, 1) \o ExpectedLine(h, 2) \o ExpectedLine(h, 3)
      \o ExpectedLine(h, 4) \o ExpectedLine(h, 5)

\* C17: a finished history request on an open connection has sent one
\* bot_message: the fixed no-history text when the history is empty,
\* otherwise the min(n,5) most recent entries, oldest first, numbered from
\* 1, one line each in the stated format.
C17_HistoryReply ==
    \A i \in CycleIds :
        LET c == cyc[i]
            h == history[c.ws] IN
        (c.pc = "done" /\ (open[c.ws] \/ c.sent # <<>>)) =>
            /\ Len(c.sent) = 1
            /\ c.sent[1].type = "bot_message"
            /\ c.sent[1].content = IF Len(h) = 0 THEN "no_history"
                                   ELSE ExpectedText(h)

C17_Witness ==
    \E i \in CycleIds :
        LET h == history[cyc[i].ws] IN
        /\ cyc[i].pc = "done" /\ Len(cyc[i].sent) = 1 /\ cyc[i].sent[1].delivered
        /\ Len(h) > 5
        /\ h[1] # h[Len(h) - 4]
        /\ h[Len(h)] # h[Len(h) - 1]

\* C18: the step that receives new_session on an open connection empties
\* that connection's history, sends the welcome bot_message and nothing
\* else, and leaves the ledger, the other histories, the connection and
\* every other handler as they were.
C18_NewSession ==
    [][\A i \in CycleIds :
         (cyc[i].pc = "idle" /\ cyc'[i].inbound.type = "new_session") =>
            /\ history' = [history EXCEPT ![cyc'[i].ws] = <<>>]
            /\ cyc'[i].sent = <<welcomeMsg>> /\ cyc'[i].pc = "done"
            /\ ledger' = ledger /\ open' = open
            /\ \A j \in CycleIds \ {i} : cyc'[j] = cyc[j]]_vars

\* C18 witness: a history request was answered from a non-empty history,
\* then new_session emptied it, for a user with a balance on record.
C18_Witness ==
    \E i, j \in CycleIds :
        /\ j < i
        /\ cyc[i].inbound.type = "new_session" /\ cyc[i].sent = <<welcomeMsg>>
        /\ cyc[j].ws = cyc[i].ws
        /\ cyc[j].sent # <<>> /\ cyc[j].sent[1] # noHistoryMsg
        /\ cyc[j].inbound.type = "history"
        /\ history[cyc[i].ws] = <<>>
        /\ \E u \in Users : ledger[u] = UserDoc(MaxInitCredits, FALSE)

\* C19 as stated: every snapshot fetchMarketData returns holds exactly 100
\* candles, whatever number of candles the provider answered with.
C19_ExactlyHundred ==
    snapshot.status = "ok" => Len(snapshot.candles) = CandleLimit

\* C20 as stated: in every snapshot fetchMarketData returns, the candle
\* timestamps never decrease from one candle to the next.
C20_OldestToNewest ==
    snapshot.status = "ok" =>
        \A j \in 1..(Len(snapshot.candles) - 1) :
            snapshot.candles[j].timestamp <= snapshot.candles[j + 1].timestamp

\* ------------------------------------------- the decision engine on its own
\* One getGeminiPrediction call for every pair of answers the two models can
\* give to it.
ConfidenceTenths == {-50, 0, 894, 895, 900, 934, 935, 945, 980, 985, 1200}

RawConfidences ==
    {RawConfidence("number", t) : t \in ConfidenceTenths}
    \cup {RawConfidence("numericString", 950), RawConfidence("numericString", 70)}
    \cup {RawConfidence("text", 0), RawConfidence("missing", 0),
          RawConfidence("null", 0)}

FailureKinds ==
    {"apiError", "emptyCandidates", "missingText", "malformedJSON", "jsonNull"}

\* Directions and durations a parsed answer can carry: the enum values, a
\* value outside the enum, and "" for a missing field.
ModelDirections == Directions \cup {"SIDEWAYS", ""}

ModelDurations == Durations \cup {"5 minutes", ""}

ModelAnswers ==
    {ModelAnswer(k, "none", RawConfidence("missing", 0), "") : k \in FailureKinds}
    \cup {ModelAnswer("json", d, r, "10-15 seconds") :
              d \in Directions, r \in RawConfidences}
    \cup {ModelAnswer("json", d, RawConfidence("number", 935), t) :
              d \in ModelDirections, t \in ModelDurations}

Prompts == {"prompt BTC/USDT", "prompt ETH/USDT"}

Schema == "GeminiPredictionDecision"

DecisionInit ==
    /\ ledger = [u \in Users |-> Absent]
    /\ open = [c \in Conns |-> TRUE]
    /\ history = [c \in Conns |-> <<>>]
    /\ cyc = [i \in CycleIds |-> IdleCycle]
    /\ ledger0 = ledger
    /\ purchased = {}
    /\ snapshot = NoSnapshot
    /\ engine = NoEngineRun
    /\ clock = Untimed

\* One call of getGeminiPrediction: first is what the primary model answers,
\* second what the fallback model answers if it is asked.
GetGeminiPrediction(prompt, first, second) ==
    /\ ~engine.ran
    /\ LET primary == callGeminiModel(first)
           calls == modelCalls(primary, prompt, Schema)
           fallback == IF Len(calls) > 1 THEN callGeminiModel(second)
                       ELSE CallFailed
       IN  engine' = [ran |-> TRUE, calls |-> calls,
                      answers |-> <<first, second>>,
                      result |-> getGeminiPrediction(primary, fallback)]
    /\ UNCHANGED <<ledger, open, history, cyc, ledger0, purchased, snapshot,
                   clock>>

DecisionNext ==
    \E prompt \in Prompts, first \in ModelAnswers, second \in ModelAnswers :
        GetGeminiPrediction(prompt, first, second)

DecisionSpec == DecisionInit /\ [][DecisionNext]_vars


\* Some request of the call that produced the snapshot failed.
ProviderFailed(r) == r.price # "ok" \/ r.stats # "ok" \/ r.histo # "data"

\* C21 as stated: for a supported pair, whichever request of the provider
\* fails, fetchMarketData returns a snapshot, and when it is the candle
\* request that failed the snapshot's candles are 100 synthetic ones.
C21_ProviderFailureHidden ==
    (snapshot.status # "none" /\ snapshot.request.pair \in Pairs
       /\ ProviderFailed(snapshot.request))
    => /\ snapshot.status = "ok"
       /\ snapshot.request.histo # "data" =>
            /\ Len(snapshot.candles) = CandleLimit
            /\ \A j \in 1..Len(snapshot.candles) : snapshot.candles[j].synthetic

\* C22 as stated: every decision getGeminiPrediction returns carries an
\* integer confidence from 90 to 98, whatever the model put in the confidence
\* field of its JSON result, a missing or non-numeric value included.
C22_ConfidenceClamped ==
    (engine.ran /\ engine.result # NoDecision)
    => engine.result.confidence \in 90..98

Failed(answer) == answer.kind # "json"

\* C23: getGeminiPrediction asks the primary model first; when that call
\* succeeds the fallback model is never asked; when it fails in any way the
\* fallback model is asked exactly once with the same prompt and schema; and
\* the result is null exactly when both calls failed.
C23_PrimaryThenFallback ==
    engine.ran =>
        /\ Len(engine.calls) >= 1
        /\ engine.calls[1].model = PrimaryModel
        /\ ~Failed(engine.answers[1]) => Len(engine.calls) = 1
        /\ Failed(engine.answers[1]) =>
            /\ Len(engine.calls) = 2
            /\ engine.calls[2].model = FallbackModel
            /\ engine.calls[2].prompt = engine.calls[1].prompt
            /\ engine.calls[2].schema = engine.calls[1].schema
        /\ engine.result = NoDecision
            <=> (Failed(engine.answers[1]) /\ Failed(engine.answers[2]))

C23_Witness ==
    /\ engine.ran
    /\ engine.answers[1].kind = "malformedJSON"
    /\ Len(engine.calls) = 2
    /\ engine.result.direction = "DOWN"

Unsupported(c) == c.pc # "idle" /\ c.pair \notin SupportedPairs

\* C24 as stated: a cycle started for a pair outside the supported ones sends
\* no prediction, deducts nothing, appends nothing and ends with the generic
\* failure bot_message.
C24_Original ==
    \A i \in CycleIds :
        LET c == cyc[i] IN
        (Unsupported(c) /\ c.pc = "done") =>
            /\ ~c.pushed /\ c.decrement = "none"
            /\ Len(c.sent) >= 1 /\ c.sent[Len(c.sent)] = errorMsg

\* C24 amended: such a cycle never sends a prediction, a credits_update or a
\* follow-up, deducts nothing and appends nothing.  It ends either at the
\* pre-flight check with insufficient_credits alone (no unlimited access and
\* credits <= 0), or silently at the 600 ms timer when the connection has
\* closed by then, or in the catch block, whose generic failure bot_message
\* is the last message when the connection is still open.
C24_UnsupportedNeverPredicts ==
    \A i \in CycleIds :
        LET c == cyc[i] IN
        Unsupported(c) =>
            /\ ~c.pushed /\ c.decrement = "none" /\ c.direction = "none"
            /\ history[c.ws] = <<>>
            /\ \A k \in 1..Len(c.sent) :
                 c.sent[k].type \in {"insufficient_credits", "bot_message", "typing"}
            /\ (c.userCredits.exists /\ purchased = {} /\ ledger[c.userId].exists)
                 => ledger[c.userId].credits = c.userCredits.credits
            /\ c.pc \notin {"decFind", "decSave", "refresh", "followUp"}
            /\ c.pc = "done" =>
                 \/ /\ StartedExhausted(c)
                    /\ Types(c.sent) = <<"insufficient_credits">>
                 \/ /\ c.threw
                    /\ open[c.ws] => c.sent[Len(c.sent)] = errorMsg
                 \/ /\ ~open[c.ws] /\ ~c.threw
                    /\ Len(c.sent) = 1 /\ c.sent[1].content = "analyzing"

C24_Witness ==
    \E i \in CycleIds :
        /\ Unsupported(cyc[i])
        /\ cyc[i].userCredits.credits > 0
        /\ cyc[i].sent = <<thinkingMsg, typingMsg, errorMsg>>
        /\ cyc[i].sent[3].delivered

\* The record a first access creates.
FreshRecord == UserDoc(DefaultCredits, FALSE)

\* Invocation c has gone past the reads of the record at its start without
\* a ledger call failing (and, for the route, was not answered 401).
Proceeded(c) ==
    /\ c.pc \notin {"idle", "getCredits", "setCredits", "reGetCredits",
                    "apiGet", "apiSet", "apiReGet"}
    /\ ~c.threw
    /\ c.response.status # 401

\* C25: an access (analyze-pair cycle or GET /api/credits) that finds no
\* record for its user writes the record credits = 10, hasUnlimitedAccess =
\* false, and goes on with that record: the cycle passes the pre-flight check
\* and sends the thinking message, the route answers 200 with the record.
C25_LazyInit ==
    /\ [][\A i \in CycleIds :
            (/\ cyc[i].pc \in {"setCredits", "apiSet"}
             /\ cyc'[i].initialised
             /\ ~ledger[cyc[i].userId].exists)
            => ledger'[cyc[i].userId] = FreshRecord]_vars
    /\ [](\A i \in CycleIds :
            LET c == cyc[i] IN
            (Proceeded(c) /\ Alone(i) /\ ~ledger0[c.userId].exists) =>
                /\ c.initialised
                /\ ledger[c.userId].exists
                /\ c.userCredits = FreshRecord
                /\ c.response.status = 0 =>
                     (Len(c.sent) >= 1 /\ c.sent[1].content = "analyzing")
                /\ c.response.status # 0 => c.response = Response(200, FreshRecord))

C25_Witness ==
    \E i \in CycleIds :
        /\ cyc[i].initialised
        /\ Alone(i)
        /\ cyc[i].pc = "done"
        /\ cyc[i].response = Response(200, FreshRecord)
        /\ ledger[cyc[i].userId] = FreshRecord

\* The pairs whose symbol without the slash occurs in the upper-cased
\* content without whitespace, as positions in the enumeration.
Matching(content) ==
    {k \in DOMAIN tradingPairs :
       includes(stripWhitespace(toUpperCase(content)),
                SelectSeq(PairText[tradingPairs[k]], LAMBDA ch : ch # "/"))}

\* Invocation c handles a user_message with content that is not the history
\* command.
PlainUserMessage(c) ==
    /\ c.pc # "idle"
    /\ c.inbound.type = "user_message"
    /\ c.inbound.content # <<>>
    /\ toLowerCase(c.inbound.content) # HistoryCommand

\* C26: a user_message that is not the history command starts a cycle for
\* pair p exactly when its content, upper-cased and without whitespace,
\* contains the symbol of p without the slash, p being the first such pair
\* of the enumeration; when no pair matches no cycle starts, the only
\* message sent is one help bot_message (sent when the connection is open as
\* the timer fires), and the step leaves ledger and history as they were.
C26_PairFromText ==
    /\ [](\A i \in CycleIds :
            LET c == cyc[i]
                hits == Matching(c.inbound.content) IN
            PlainUserMessage(c) =>
                /\ hits # {} =>
                     /\ c.pc = "getCredits"
                     /\ c.pair = tradingPairs[CHOOSE k \in hits :
                                                \A m \in hits : k <= m]
                     /\ c.sent = <<>>
                /\ hits = {} =>
                     /\ c.pc \in {"helpTimer", "done"}
                     /\ c.pc = "helpTimer" => c.sent = <<>>
                     /\ c.sent \in {<<>>, <<helpMsg>>}
                     /\ (c.pc = "done" /\ open[c.ws]) => c.sent = <<helpMsg>>)
    /\ [][\A i \in CycleIds :
            (/\ cyc'[i] # cyc[i]
             /\ PlainUserMessage(cyc'[i])
             /\ Matching(cyc'[i].inbound.content) = {})
            => UNCHANGED <<ledger, history>>]_vars

C26_Witness ==
    \E i, j \in CycleIds :
        /\ cyc[i].inbound.content = ContentTwoPairs
        /\ cyc[i].pc = "getCredits" /\ cyc[i].pair = "SOL/USDT"
        /\ cyc[j].inbound.content = ContentSlashed
        /\ cyc[j].sent = <<helpMsg>>

\* The prediction messages the cycles have sent on connection w.
PredictionsSent(w) ==
    {<<i, k>> \in CycleIds \X (1..6) :
       /\ cyc[i].pc # "idle" /\ cyc[i].ws = w
       /\ k <= Len(cyc[i].sent)
       /\ cyc[i].sent[k].type = "prediction"}

\* The cycle has ended and its last message is insufficient_credits or the
\* generic failure message.
EndedInRefusalOrFailure(c) ==
    /\ c.pc = "done"
    /\ Len(c.sent) >= 1
    /\ \/ c.sent[Len(c.sent)].type = "insufficient_credits"
       \/ c.sent[Len(c.sent)].content = errorMsg.content

\* C27 as stated: with no new_session in between, a connection's history has
\* as many entries as prediction messages were sent on it, and no cycle that
\* ends in insufficient_credits or in a failure message has appended one.
C27_HistoryFollowsPredictions ==
    /\ \A w \in Conns : Len(history[w]) = Cardinality(PredictionsSent(w))
    /\ \A i \in CycleIds :
         EndedInRefusalOrFailure(cyc[i]) => ~cyc[i].pushed

\* The text handleHistory sends for history h.
HistoryReply(h) ==
    IF Len(h) = 0 THEN noHistoryMsg ELSE historyMsg(formatHistory(h))

\* C28: each connection has its own history, empty when the connection is
\* opened.  A step of a handler running for connection A leaves the history
\* of every other connection as it was, and the reply to a history request
\* on A is made from A's history alone, also when both connections belong to
\* the same user.
C28_ConnectionOwnsHistory ==
    [][\A i \in CycleIds :
         cyc'[i] # cyc[i] =>
             /\ \A w \in BothConns \ {cyc'[i].ws} : history'[w] = history[w]
             /\ (cyc[i].pc = "historyTimer" /\ Len(cyc'[i].sent) = 1)
                  => cyc'[i].sent[1] = HistoryReply(history[cyc[i].ws])]_vars

C28_Witness ==
    \E i, j \in CycleIds :
        /\ cyc[i].ws = "ws1" /\ cyc[i].pushed
        /\ cyc[j].ws = "ws2" /\ cyc[j].inbound.type = "history"
        /\ cyc[i].userId = cyc[j].userId
        /\ history["ws1"] # <<>>
        /\ cyc[j].sent = <<noHistoryMsg>>

\* The record the cycle read at its start has hasUnlimitedAccess = true.
ReadUnlimited(c) == c.userCredits.exists /\ c.userCredits.hasUnlimitedAccess

\* C29: a cycle of a user with unlimited access is not stopped by the
\* balance, credits = 0 included: it sends the thinking message, never sends
\* insufficient_credits and never calls the decrement, whatever the
\* decision; with no other cycle beside it the stored credits stay at the
\* value it read.
C29_UnlimitedUnmetered ==
    \A i \in CycleIds :
        LET c == cyc[i] IN
        ReadUnlimited(c) =>
            /\ Len(c.sent) >= 1 /\ c.sent[1].content = "analyzing"
            /\ \A k \in 1..Len(c.sent) : c.sent[k].type # "insufficient_credits"
            /\ c.decrement = "none"
            /\ c.pc \notin {"decFind", "decSave"}
            /\ (\A j \in CycleIds \ {i} : cyc[j].pc = "idle")
                 => /\ ledger[c.userId].exists
                    /\ ledger[c.userId].credits = c.userCredits.credits

C29_Witness ==
    \E i \in CycleIds :
        /\ ReadUnlimited(cyc[i])
        /\ cyc[i].userCredits.credits = 0
        /\ cyc[i].direction = "UP"
        /\ cyc[i].pc = "done"
        /\ Len(cyc[i].sent) = 5 /\ cyc[i].sent[3] = predictionMsg("UP")
        /\ ledger[cyc[i].userId] = UserDoc(0, TRUE)

\* C30: on the clock, typing is sent at least 600 ms after the thinking
\* message; the message that follows typing, when it is the prediction or
\* the insufficient_credits of a refused deduction, is sent at least 2000 ms
\* after the analysis started, however quickly the analysis returned; and
\* the follow-up is sent at least 1000 ms after credits_update.
C30_Pacing ==
    \A i \in CycleIds :
        LET c == cyc[i] IN
        /\ (Len(c.sent) >= 2 /\ c.sent[2].type = "typing")
             => /\ c.times[2] >= c.times[1] + ThinkingDelayMs
                /\ c.startTime = c.times[2]
        /\ (Len(c.sent) >= 3
              /\ c.sent[3].type \in {"prediction", "insufficient_credits"})
             => c.times[3] >= c.startTime + MinAnalysisTimeMs
        /\ \A k \in 1..(Len(c.sent) - 1) :
             c.sent[k].type = "credits_update"
             => c.times[k + 1] >= c.times[k] + FollowUpDelayMs

C30_Witness ==
    \E i \in CycleIds :
        /\ Types(cyc[i].sent) = <<"bot_message", "typing", "prediction",
                                  "credits_update", "bot_message">>
        /\ cyc[i].times[2] = cyc[i].times[1] + ThinkingDelayMs
        /\ cyc[i].times[3] = cyc[i].times[2] + MinAnalysisTimeMs
        /\ cyc[i].times[5] = cyc[i].times[4] + FollowUpDelayMs

\* The last message of the cycle is one of the three terminal messages, and
\* it is the only terminal message the cycle has sent.
TerminalMessage(m) ==
    \/ m.type = "insufficient_credits"
    \/ m.type = "bot_message"
         /\ m.content \in {errorMsg.content, followUpMsg("UP").content,
                           followUpMsg("NEUTRAL").content}

Answered(c) ==
    /\ c.pc = "done"
    /\ Len(c.sent) >= 1
    /\ TerminalMessage(c.sent[Len(c.sent)])
    /\ c.sent[Len(c.sent)].delivered
    /\ \A k \in 1..(Len(c.sent) - 1) : ~TerminalMessage(c.sent[k])

\* C31: with the connection open and every external call and timer
\* eventually completing, every started cycle eventually ends having sent
\* exactly one terminal message (the follow-up, insufficient_credits or the
\* generic failure message) as its last message; no cycle ends unanswered.
C31_EveryCycleAnswered ==
    /\ \A i \in CycleIds : (cyc[i].pc # "idle") ~> Answered(cyc[i])
    /\ [](\A i \in CycleIds : cyc[i].pc = "done" => Answered(cyc[i]))

C31_Witness ==
    \E i, j \in CycleIds :
        /\ Answered(cyc[i]) /\ cyc[i].sent[Len(cyc[i].sent)] = errorMsg
        /\ cyc[i].pushed
        /\ Answered(cyc[j]) /\ cyc[j].sent[Len(cyc[j].sent)].type = "insufficient_credits"

\* C32: a purchase request with success = true sets hasUnlimitedAccess of
\* the requesting user and leaves that user's stored credits and every other
\* user's record as they were (a user without a record gets one with the
\* default credits); a request with success false or without authorisation
\* ends without a ledger write, as does every other step of the route.
C32_PurchaseGrantsOnly ==
    /\ [][\A i \in CycleIds :
            (cyc'[i] # cyc[i] /\ cyc'[i].request.route = "purchase") =>
                LET u == cyc'[i].userId IN
                IF cyc[i].pc = "purchaseGrant" /\ cyc'[i].pc = "purchaseRead"
                THEN /\ ledger'[u].exists /\ ledger'[u].hasUnlimitedAccess
                     /\ ledger'[u].credits = IF ledger[u].exists
                                             THEN ledger[u].credits
                                             ELSE DefaultCredits
                     /\ \A v \in BothUsers \ {u} : ledger'[v] = ledger[v]
                ELSE ledger' = ledger]_vars
    /\ [](\A i \in CycleIds :
            LET c == cyc[i] IN
            (c.request.route = "purchase"
               /\ (~c.request.success \/ ~c.request.authorised)) =>
                /\ c.pc = "done"
                /\ c.response = Response(IF c.request.authorised THEN 200 ELSE 401,
                                         Absent))

C32_Witness ==
    \E i \in CycleIds :
        /\ cyc[i].request = PurchaseRequest(TRUE, TRUE)
        /\ cyc[i].userId = "user_2"
        /\ ledger0["user_2"] = UserDoc(1, FALSE)
        /\ cyc[i].response = Response(200, UserDoc(1, TRUE))
        /\ ledger["dev_user"] = ledger0["dev_user"]

\* C33: GET /api/credits revokes unlimited access only in a request that read
\* the user as unlimited, ran with Whop enabled and the plan and company ids
\* configured, and whose membership listing completed with no active
\* membership; the revocation clears the flag and keeps the stored credits; a
\* request whose membership listing failed answers with the record it read
\* and revokes nothing, and no other step of the route after the record is
\* known writes to the ledger.
ApiReadPcs == {"apiGet", "apiReGet", "apiMembership", "apiRevoke", "apiReGet2"}

C33_RevokeOnlyWithoutMembership ==
    /\ [](\A i \in CycleIds :
            LET c == cyc[i] IN
            /\ c.pc \in {"apiMembership", "apiRevoke"} =>
                   c.userCredits.exists /\ c.userCredits.hasUnlimitedAccess
            /\ (c.pc \in {"apiRevoke", "apiReGet2"} \/ c.whop.revoked) =>
                   /\ c.whop.enabled /\ c.whop.ids
                   /\ c.whop.membership = "none")
    /\ [][\A i \in CycleIds :
            LET u == cyc[i].userId IN
            IF cyc[i].pc = "apiRevoke" /\ cyc'[i].whop.revoked
            THEN /\ ledger[u].exists
                 /\ ledger' = [ledger EXCEPT ![u].hasUnlimitedAccess = FALSE]
            ELSE (cyc[i].pc \in ApiReadPcs /\ cyc'[i] # cyc[i]) =>
                     ledger' = ledger]_vars
    /\ [](\A i \in CycleIds :
            LET c == cyc[i] IN
            c.whop.membership = "error" =>
                /\ c.pc = "done" /\ ~c.whop.revoked
                /\ c.response = Response(200, c.userCredits)
                /\ c.userCredits.hasUnlimitedAccess)

C33_Witness ==
    \E i, j \in CycleIds :
        /\ cyc[i].whop.revoked /\ cyc[i].pc = "done"
        /\ cyc[i].response =
               Response(200, [cyc[i].userCredits EXCEPT !.hasUnlimitedAccess = FALSE])
        /\ cyc[j].whop.membership = "error"

\* C34: a frame without userId is handled for "dev_user", one with a userId
\* for that user; a cycle takes its userCredits and the document it
\* decrements from the record of its own user, and a step of a cycle leaves
\* the record of every other user as it was.
FrameUser(c) ==
    IF JSONparse(c.inbound).userId = "" THEN "dev_user"
    ELSE JSONparse(c.inbound).userId

C34_OwnRecordOnly ==
    /\ [](\A i \in CycleIds :
            (cyc[i].inbound # NoFrame /\ cyc[i].pc \notin {"idle", "done"}) =>
                cyc[i].userId = FrameUser(cyc[i]))
    /\ [][\A i \in CycleIds :
            (cyc'[i] # cyc[i] /\ cyc'[i].inbound # NoFrame) =>
                LET u == FrameUser(cyc'[i]) IN
                /\ \A v \in BothUsers \ {u} : ledger'[v] = ledger[v]
                /\ cyc'[i].userCredits # cyc[i].userCredits =>
                       cyc'[i].userCredits = ledger[u]
                /\ cyc'[i].doc # cyc[i].doc => cyc'[i].doc = ledger[u]]_vars

C34_Witness ==
    \E i, j \in CycleIds :
        /\ cyc[i].inbound # NoFrame /\ cyc[i].inbound.userId = "user_2"
        /\ cyc[i].decrement = "saved"
        /\ ledger0["user_2"] = UserDoc(1, FALSE)
        /\ ledger["user_2"] = UserDoc(0, FALSE)
        /\ cyc[j].inbound # NoFrame /\ cyc[j].inbound.userId = ""
        /\ cyc[j].userId = "dev_user" /\ cyc[j].pc = "delay600"
        /\ ledger["dev_user"] = ledger0["dev_user"]
        /\ ledger0["dev_user"] = UserDoc(1, FALSE)

\* C35: every decision getGeminiPrediction returns has a direction among UP,
\* DOWN and NEUTRAL and a duration among the six labels of the schema.
C35_DecisionWithinEnums ==
    (engine.ran /\ engine.result # NoDecision) =>
        /\ engine.result.direction \in Directions
        /\ engine.result.duration \in Durations

\* C36: once a new_session frame has been processed on a connection, the
\* history of that connection holds no entry of a cycle that was requested
\* before it: with every earlier cycle of the connection completed and no
\* later cycle having appended, the history is empty.
NewSessionProcessed(c) ==
    /\ c.inbound.type = "new_session"
    /\ Len(c.sent) = 1 /\ c.sent[1].content = welcomeMsg.content

C36_NewSessionDropsInFlight ==
    \A i, j \in CycleIds :
        (/\ i < j
         /\ NewSessionProcessed(cyc[j])
         /\ cyc[i].ws = cyc[j].ws /\ cyc[i].pc = "done"
         /\ \A k \in CycleIds : (k > j /\ cyc[k].ws = cyc[j].ws) => ~cyc[k].pushed)
        => history[cyc[j].ws] = <<>>

\* C37: a cycle that delivers an UP or DOWN prediction without having called
\* decrementUserCredits does so only when the user's record carries unlimited
\* access at that step.
C37_UnmeteredOnlyWhileUnlimited ==
    [][\A i \in CycleIds :
         (/\ ~cyc[i].pushed /\ cyc'[i].pushed
          /\ cyc'[i].direction \in {"UP", "DOWN"}
          /\ cyc'[i].decrement = "none")
         => ledger[cyc[i].userId].hasUnlimitedAccess]_vars

\* C38: a cycle whose decrement has been written to the ledger has sent its
\* prediction message on an open connection.
C38_DeductionOnlyWithDelivery ==
    \A i \in CycleIds :
        cyc[i].decrement = "saved" =>
            \E k \in 1..Len(cyc[i].sent) :
                /\ cyc[i].sent[k].type = "prediction"
                /\ cyc[i].sent[k].delivered

\* C39: once a user's record exists, no step raises its credits back to the
\* initial 10.
C39_InitNeverOverwrites ==
    [][\A u \in Users :
         ledger[u].exists =>
             ~(/\ ledger'[u].credits = DefaultCredits
               /\ ledger[u].credits < DefaultCredits)]_vars

\* C40: a cycle that has sent the generic failure message has not written a
\* decrement to the ledger, has not appended a history entry and has not sent
\* a prediction.
SentFailure(c) ==
    \E k \in 1..Len(c.sent) :
        c.sent[k].type = "bot_message" /\ c.sent[k].content = errorMsg.content

C40_FailureMeansNothingDone ==
    \A i \in CycleIds :
        SentFailure(cyc[i]) =>
            /\ cyc[i].decrement # "saved"
            /\ ~cyc[i].pushed
            /\ \A k \in 1..Len(cyc[i].sent) : cyc[i].sent[k].type # "prediction"

====
